---- MODULE Spec2Model ----
(***************************************************************************)
(* Model of the tool-calling chat clients of vv176/SimpleExamples:         *)
(*   - persistence/db_accessor.py            (the my_conversations table)  *)
(*   - persistence/openai_mem_tool_persistence.py  (persistence client)    *)
(*   - multi-hop/movie_recommender_agent.py        (movie agent)           *)
(*                                                                         *)
(* Python values are modelled as follows.                                  *)
(*   str   : a record.  Raw(t) is a text that json.loads rejects; Json(v)  *)
(*           is a text that json.loads accepts, v being the value it       *)
(*           denotes.  NoneStr is None where a str was expected.           *)
(*   JSON  : JDict(d) (d a record of the present keys), JList(items),      *)
(*           JScalar (a number), with str leaves as above.                 *)
(*   tool-call ids are records, tool names strings; PyNone and NoneName    *)
(*   are None for them.                                                    *)
(***************************************************************************)
EXTENDS Naturals, Sequences, FiniteSets, TLC

VARIABLES
    store,      \* rows of my_conversations (clients: in the order get_conversation_history
                \* returns them; table on its own: in the order of insertion)
    loaded,     \* last value returned by _get_conversation_history_from_db (harness)
    pc,         \* persistence client: "idle" | "call1" | "call2"; movie agent: "input" | "call" | "stopped";
                \* reconstruction: "load" | "loaded"; table on its own: "db" | "cleared"
    messages,   \* the message list of the turn in progress
    tools_sent, \* persistence client: TRUE when the pending call carries tools=self.tools
    turn_log,   \* persistence client: what the turns so far built in memory
    returned,   \* persistence client: last value returned by chat_completion_with_tools;
                \* table on its own: the last call of the accessor and its result
    api_calls,  \* Model Endpoint calls issued so far by the running client
    db_faulty,  \* TRUE in runs where store operations may fail
    id_seq,     \* the SERIAL sequence of my_conversations.id: the last id handed out
    conversation_history, \* movie agent: self.conversation_history
    turn_calls, \* movie agent: Model Endpoint calls issued in the current turn
    turn_resps, \* movie agent: Model Endpoint responses handled in the current turn
    executed,   \* movie agent: ids of the calls of the last batch whose tool ran
    emitted,    \* movie agent: the answer printed by the last turn that printed one
    turn_end,   \* movie agent: how the last handled response left the turn
    last_resp   \* the Model Endpoint response handled by the last step (NoResp otherwise)

agent_vars == <<conversation_history, turn_calls, turn_resps, executed, emitted, turn_end>>
vars == <<store, loaded, pc, messages, tools_sent, turn_log, returned, api_calls, db_faulty,
          id_seq, agent_vars, last_resp>>

-----------------------------------------------------------------------------
(* Python str and JSON values *)

Raw(t) == [k |-> "raw", text |-> t]
Json(v) == [k |-> "json", val |-> v]
NoneStr == [k |-> "none"]
PyNone == [none |-> TRUE]
NoneName == "<None>"

\* what a call leaves in place of its return value when an exception propagates from it
Raised == [k |-> "raised"]

\* an f-string: a non-JSON text built from a template and one value
Fmt(template, arg) == [k |-> "fmt", text |-> template, arg |-> arg]

JScalar == [t |-> "scalar"]
JNum(n) == [t |-> "num", n |-> n]
JList(items) == [t |-> "list", items |-> items]
JDict(d) == [t |-> "dict", d |-> d]

\* json.dumps(v): the text denoting v
json_dumps(v) == Json(v)

\* json.loads(s) raises JSONDecodeError unless s is a JSON text
json_loads_raises(s) == s.k # "json"
json_loads(s) == s.val

isinstance_dict(v) == v.t = "dict"
has_key(v, key) == key \in DOMAIN v.d
dict_get(v, key, default) == IF key \in DOMAIN v.d THEN v.d[key] ELSE default

\* iterating v and calling .get on each element works only for a list of dicts
\* (anything else raises TypeError or AttributeError)
iterable_of_dicts(v) ==
    /\ v.t = "list"
    /\ \A n \in 1..Len(v.items) : v.items[n].t = "dict"

\* str.strip() over the texts of the model
StripText(t) ==
    CASE t = " ok " -> "ok"
      [] t = "  " -> ""
      [] t = " hello " -> "hello"
      [] t = " Quit " -> "Quit"
      [] OTHER -> t
strip(s) == IF s.k = "raw" THEN Raw(StripText(s.text)) ELSE s

\* `s or ""`
or_empty(s) == IF s = NoneStr \/ s = Raw("") THEN Raw("") ELSE s

\* truthiness of a str
truthy(s) == s # NoneStr /\ s # Raw("")

-----------------------------------------------------------------------------
(* persistence/db_accessor.py *)

Row(role, response) == [role |-> role, response |-> response]

\* insert_conversation writing over the newest row when there is one (mutant)
insert_conversationOverwriting(table, role, response) ==
    IF table = <<>> THEN <<Row(role, response)>>
    ELSE [table EXCEPT ![Len(table)] = Row(role, response)]

\* insert_conversation(role, response): one more row, after the existing ones
insert_conversation(table, role, response) == Append(table, Row(role, response))

\* get_conversation_history(): all rows, ORDER BY timestamp ASC.  In the runs of the
\* two clients the table is kept in the order of the timestamps insert_conversation
\* stamps, the clock (datetime.now() at insert) giving each insert a later time than the
\* one before; clocks that repeat or go back are in the section on the table itself.
get_conversation_history(table) == table

-----------------------------------------------------------------------------
(* OpenAIClientWithMemoryAndToolsPersistence._get_conversation_history_from_db *)

\* lines 98-107: the API-format tool call of a stored call dict
ToolCallOfStored(tc) ==
    [id |-> dict_get(tc, "id", PyNone),
     type |-> "function",
     function |-> [name |-> dict_get(tc, "function_name", NoneName),
                   arguments |-> dict_get(tc, "arguments", NoneStr)]]

\* lines 127-131 reading the id under the key of the call dicts (mutant)
ToolMsgOfStoredWrongKey(tr) ==
    [role |-> "tool",
     tool_call_id |-> dict_get(tr, "id", PyNone),
     content |-> dict_get(tr, "content", Raw(""))]

\* lines 127-131: the tool message of a stored result dict
ToolMsgOfStored(tr) ==
    [role |-> "tool",
     tool_call_id |-> dict_get(tr, "tool_call_id", PyNone),
     content |-> dict_get(tr, "content", Raw(""))]

\* lines 109-113
AssistantMsgOfStored(parsed) ==
    LET tcs == dict_get(parsed, "tool_calls", JList(<<>>))
    IN [role |-> "assistant",
        content |-> dict_get(parsed, "content", Raw("")),
        tool_calls |-> [n \in 1..Len(tcs.items) |-> ToolCallOfStored(tcs.items[n])]]

\* lines 143-146 with the orphan check dropped (mutant)
PlainMessagesKeepTool(role, content) == <<[role |-> role, content |-> content]>>

\* lines 143-146: a regular row becomes one message, a tool row none
PlainMessages(role, content) ==
    IF role # "tool" THEN <<[role |-> role, content |-> content]>> ELSE <<>>

\* lines 116-135: the tool messages of the row after a batch row, and the rows consumed.
\* raised: an exception other than JSONDecodeError/KeyError left the inner try
ToolGroup(db_history, i) ==
    IF i + 1 <= Len(db_history) /\ db_history[i + 1].role = "tool"
    THEN LET tool_content == db_history[i + 1].response
         IN IF json_loads_raises(tool_content)
            THEN [raised |-> FALSE, msgs |-> <<>>, used |-> 2]
            ELSE LET tool_parsed == json_loads(tool_content)
                 IN IF isinstance_dict(tool_parsed) /\ has_key(tool_parsed, "tool_results")
                    THEN LET trs == dict_get(tool_parsed, "tool_results", JList(<<>>))
                         IN IF iterable_of_dicts(trs)
                            THEN [raised |-> FALSE,
                                  msgs |-> [n \in 1..Len(trs.items) |-> ToolMsgOfStored(trs.items[n])],
                                  used |-> 2]
                            ELSE [raised |-> TRUE, msgs |-> <<>>, used |-> 2]
                    ELSE [raised |-> FALSE, msgs |-> <<>>, used |-> 2]
    ELSE [raised |-> FALSE, msgs |-> <<>>, used |-> 1]

\* lines 92-95: the row is an assistant row holding a dict with a tool_calls key
IsBatchPayload(role, content) ==
    /\ role = "assistant"
    /\ ~json_loads_raises(content)
    /\ isinstance_dict(json_loads(content))
    /\ has_key(json_loads(content), "tool_calls")

\* lines 86-148: the while loop from index i on (1-based), messages built so far
RECURSIVE ScanHistory(_, _, _)
ScanHistory(db_history, i, msgs) ==
    IF i > Len(db_history)
    THEN [raised |-> FALSE, msgs |-> msgs]
    ELSE LET role == db_history[i].role
             content == db_history[i].response
         IN IF IsBatchPayload(role, content)
            THEN LET parsed == json_loads(content)
                 IN IF ~iterable_of_dicts(dict_get(parsed, "tool_calls", JList(<<>>)))
                    THEN [raised |-> TRUE, msgs |-> msgs]
                    ELSE LET grp == ToolGroup(db_history, i)
                         IN IF grp.raised
                            THEN [raised |-> TRUE, msgs |-> msgs]
                            ELSE ScanHistory(db_history, i + grp.used,
                                     msgs \o <<AssistantMsgOfStored(parsed)>> \o grp.msgs)
            ELSE ScanHistory(db_history, i + 1, msgs \o PlainMessages(role, content))

\* lines 79-153 without the handler of lines 151-153 (mutant): the caller gets the
\* exception, written as a list holding Raised and no message
_get_conversation_history_from_dbUnguarded(table) ==
    LET r == ScanHistory(get_conversation_history(table), 1, <<>>)
    IN IF r.raised THEN <<Raised>> ELSE r.msgs

\* lines 79-153: any exception yields the empty list
_get_conversation_history_from_db(table) ==
    LET r == ScanHistory(get_conversation_history(table), 1, <<>>)
    IN IF r.raised THEN <<>> ELSE r.msgs

-----------------------------------------------------------------------------
(* What the environment can supply to the persistence client *)

MaxCalls == 4
MaxFaultyCalls == 2

SystemMessage == Raw("You are a helpful AI assistant with access to tools.")
UserMsgs == {Raw("weather in Paris?")}

\* the id the Model Endpoint gives the k-th tool call of its n-th response
CallId(n, k) == [n |-> n, k |-> k]

TC(id, name, arguments) ==
    [id |-> id, type |-> "function", function |-> [name |-> name, arguments |-> arguments]]

ArgsParis == Json(JDict([city |-> Raw("Paris")]))
ArgsNoCity == Json(JDict([unit |-> Raw("C")]))
ArgsBad == Raw("{city: Paris")

\* tool-call lists (name, arguments) a response can carry; ids are added per response
BatchShapes ==
    { <<<<"get_weather", ArgsParis>>>>,
      <<<<"get_weather", ArgsParis>>, <<"get_weather", ArgsNoCity>>>>,
      <<<<"get_weather", ArgsParis>>, <<"get_time", ArgsParis>>>>,
      <<<<"get_time", ArgsParis>>>>,
      <<<<"get_weather", ArgsBad>>>>,
      <<<<"get_weather", ArgsParis>>, <<"get_weather", ArgsBad>>>> }

BatchOf(shape, n) == [k \in 1..Len(shape) |-> TC(CallId(n, k), shape[k][1], shape[k][2])]

\* an assistant answer that is itself a JSON text (the model answering in JSON)
JsonAnswer == Json(JDict([tool_calls |-> JList(<<>>)]))

\* message.content of a response without tool calls
AnswerContents == {Raw(" ok "), NoneStr, JsonAnswer}
\* message.content of a response with tool calls
BatchContents == {NoneStr, Raw("checking")}

\* a response of the Model Endpoint: an exception, or a message
NoResp == [none |-> TRUE]
ApiError == [failed |-> TRUE]
ApiMessage(content, tool_calls) == [failed |-> FALSE, content |-> content, tool_calls |-> tool_calls]

FirstResponses(n) ==
    {ApiError}
    \cup {ApiMessage(c, <<>>) : c \in AnswerContents}
    \cup {ApiMessage(c, BatchOf(sh, n)) : c \in BatchContents, sh \in BatchShapes}

\* the second call carries no tools; a message that has tool calls all the same is
\* among the responses
SecondResponses ==
    ({ApiError} \cup {ApiMessage(c, <<>>) : c \in AnswerContents})
        \cup {ApiMessage(Raw(" ok "), BatchOf(<<<<"get_weather", ArgsParis>>>>, 0))}

\* outcomes of the weather lookups of one batch, per call: TRUE = the lookup succeeds
WeatherOutcomes(tool_calls) == [1..Len(tool_calls) -> BOOLEAN]

\* Model Endpoint calls a run may issue
CallLimit == IF db_faulty THEN MaxFaultyCalls ELSE MaxCalls

\* store operations of one handler that fail, by ordinal in the handler (0: the history read)
FaultOrdinals == 0..5
FaultChoices ==
    IF db_faulty
    THEN {{}} \cup {{n} : n \in FaultOrdinals} \cup {{n, n + 1} : n \in FaultOrdinals}
    ELSE {{}}

-----------------------------------------------------------------------------
(* OpenAIClientWithMemoryAndToolsPersistence.get_weather and chat_completion_with_tools *)

\* line 284: error_msg (the exception text is not modelled)
ErrorMsg == Raw("Error making API call: <e>")

\* lines 49-77.  ok: the lookup succeeds; ins_ok: the insert of line 76 succeeds.
\* A failed insert raises inside the except block, so get_weather itself raises.
get_weather(table, city, ok, ins_ok) ==
    IF ok
    THEN [raised |-> FALSE, rows |-> table, result |-> Fmt("Weather in {city}: ...", city)]
    ELSE IF ins_ok
         THEN [raised |-> FALSE,
               rows |-> insert_conversation(table, "tool", Fmt("Weather tool error for {city}: {e}", city)),
               result |-> Fmt("Error fetching weather for {city}: {e}", city)]
         ELSE [raised |-> TRUE, rows |-> table, result |-> NoneStr]

\* line 208
Dispatches(name) == name = "get_weather"

\* lines 207-223: the loop over all_tool_calls from call k on.
\* st = [raised, rows, tool_results, n]; n counts the store operations of the handler so far
RECURSIVE ToolLoop(_, _, _, _, _)
ToolLoop(tcs, k, st, wx, f) ==
    IF k > Len(tcs) \/ st.raised
    THEN st
    ELSE LET tool_call == tcs[k]
             args == tool_call.function.arguments
         IN IF Dispatches(tool_call.function.name)
            THEN IF json_loads_raises(args) \/ ~isinstance_dict(json_loads(args))
                 THEN [st EXCEPT !.raised = TRUE]
                 ELSE LET city == dict_get(json_loads(args), "city", Raw("Unknown"))
                          w == get_weather(st.rows, city, wx[k], (st.n + 1) \notin f)
                      IN ToolLoop(tcs, k + 1,
                             [raised |-> w.raised,
                              rows |-> w.rows,
                              tool_results |->
                                  IF w.raised THEN st.tool_results
                                  ELSE Append(st.tool_results,
                                           [tool_call_id |-> tool_call.id, content |-> w.result]),
                              n |-> IF wx[k] THEN st.n ELSE st.n + 1],
                             wx, f)
            ELSE ToolLoop(tcs, k + 1, st, wx, f)

\* lines 226-231 walking tool_results from its end (mutant)
ToolMessagesReversed(tool_results) ==
    [i \in 1..Len(tool_results) |->
        [role |-> "tool",
         tool_call_id |-> tool_results[Len(tool_results) + 1 - i].tool_call_id,
         content |-> tool_results[Len(tool_results) + 1 - i].content]]

\* lines 226-231
ToolMessages(tool_results) ==
    [i \in 1..Len(tool_results) |->
        [role |-> "tool",
         tool_call_id |-> tool_results[i].tool_call_id,
         content |-> tool_results[i].content]]

\* lines 234-244
tool_calls_data(content, all_tool_calls) ==
    JDict([content |-> or_empty(content),
           tool_calls |-> JList([i \in 1..Len(all_tool_calls) |->
               JDict([id |-> all_tool_calls[i].id,
                      function_name |-> all_tool_calls[i].function.name,
                      arguments |-> all_tool_calls[i].function.arguments])])])

\* lines 248-256
tool_results_data(tool_results) ==
    JDict([tool_results |-> JList([i \in 1..Len(tool_results) |->
               JDict([tool_call_id |-> tool_results[i].tool_call_id,
                      content |-> tool_results[i].content])])])

\* the outcome of a handler: the client's next state
Outcome(p, rows, msgs, ret, log) ==
    [pc |-> p, store |-> rows, messages |-> msgs, returned |-> ret, turn_log |-> log]

FailedLog == [turn_log EXCEPT !.ok = FALSE]

\* lines 283-287: the except block, after n store operations; its insert may raise in turn,
\* and then the exception reaches start_conversation (lines 348-349)
ExceptBlock(rows, n, f) ==
    IF (n + 1) \in f
    THEN Outcome("idle", rows, <<>>, Raised, FailedLog)
    ELSE Outcome("idle", insert_conversation(rows, "system", Fmt("Error: {error_msg}", ErrorMsg)),
                 <<>>, ErrorMsg, FailedLog)

\* lines 267-272 and 276-281: the answer is stripped, stored and returned
FinalAnswer(content, rows, n, f) ==
    IF content = NoneStr
    THEN ExceptBlock(rows, n, f)
    ELSE LET ai_response == strip(content)
         IN IF (n + 1) \in f
            THEN ExceptBlock(rows, n + 1, f)
            ELSE Outcome("idle", insert_conversation(rows, "assistant", ai_response), <<>>,
                         ai_response,
                         [turn_log EXCEPT !.msgs = Append(@, [role |-> "assistant", content |-> ai_response])])

\* lines 188-265 with the insert of line 245 moved before the loop of line 207 (mutant)
ToolBranchCallsFirst(resp, wx, f) ==
    LET all_tool_calls == resp.tool_calls
        assistant_msg == [role |-> "assistant",
                          content |-> or_empty(resp.content),
                          tool_calls |-> all_tool_calls]
        with_calls == insert_conversation(store, "assistant",
                          json_dumps(tool_calls_data(resp.content, all_tool_calls)))
        st == ToolLoop(all_tool_calls, 1,
                       [raised |-> FALSE, rows |-> with_calls, tool_results |-> <<>>, n |-> 1], wx, f)
        with_results == insert_conversation(st.rows, "tool",
                            json_dumps(tool_results_data(st.tool_results)))
        tool_msgs == ToolMessages(st.tool_results)
    IN IF 1 \in f THEN ExceptBlock(store, 1, f)
       ELSE IF st.raised THEN ExceptBlock(st.rows, st.n, f)
       ELSE IF (st.n + 1) \in f THEN ExceptBlock(st.rows, st.n + 1, f)
       ELSE Outcome("call2", with_results, (messages \o <<assistant_msg>>) \o tool_msgs, returned,
                    [turn_log EXCEPT !.msgs = (@ \o <<assistant_msg>>) \o tool_msgs])

\* lines 188-265: the first response carries tool calls
ToolBranch(resp, wx, f) ==
    LET all_tool_calls == resp.tool_calls
        assistant_msg == [role |-> "assistant",
                          content |-> or_empty(resp.content),
                          tool_calls |-> all_tool_calls]
        st == ToolLoop(all_tool_calls, 1,
                       [raised |-> FALSE, rows |-> store, tool_results |-> <<>>, n |-> 0], wx, f)
        with_calls == insert_conversation(st.rows, "assistant",
                          json_dumps(tool_calls_data(resp.content, all_tool_calls)))
        with_results == insert_conversation(with_calls, "tool",
                            json_dumps(tool_results_data(st.tool_results)))
        tool_msgs == ToolMessages(st.tool_results)
    IN IF st.raised THEN ExceptBlock(st.rows, st.n, f)
       ELSE IF (st.n + 1) \in f THEN ExceptBlock(st.rows, st.n + 1, f)
       ELSE IF (st.n + 2) \in f THEN ExceptBlock(with_calls, st.n + 2, f)
       ELSE Outcome("call2", with_results, (messages \o <<assistant_msg>>) \o tool_msgs, returned,
                    [turn_log EXCEPT !.msgs = (@ \o <<assistant_msg>>) \o tool_msgs])

\* lines 178-287, from the return of the first create() on
AfterFirstCall(resp, wx, f) ==
    IF resp.failed THEN ExceptBlock(store, 0, f)
    ELSE IF Len(resp.tool_calls) > 0 THEN ToolBranch(resp, wx, f)
    ELSE FinalAnswer(resp.content, store, 0, f)

\* lines 260-272 handling tool calls of the second response like those of the first (mutant)
AfterSecondCallLooping(resp, f) ==
    IF resp.failed THEN ExceptBlock(store, 0, f)
    ELSE IF Len(resp.tool_calls) > 0 THEN ToolBranch(resp, [k \in 1..Len(resp.tool_calls) |-> TRUE], f)
    ELSE FinalAnswer(resp.content, store, 0, f)

\* lines 260-272 and 283-287, from the return of the second create() on
AfterSecondCall(resp, f) ==
    IF resp.failed THEN ExceptBlock(store, 0, f)
    ELSE FinalAnswer(resp.content, store, 0, f)

-----------------------------------------------------------------------------
(* Actions of the persistence client (start_conversation drives the turns) *)

Apply(o) ==
    /\ pc' = o.pc
    /\ store' = o.store
    /\ messages' = o.messages
    /\ returned' = o.returned
    /\ turn_log' = o.turn_log

\* lines 164-186 without the insert of line 177 (mutant)
StartTurnNoInsert ==
    /\ pc = "idle"
    /\ api_calls < CallLimit
    /\ \E user_message \in UserMsgs, f \in FaultChoices :
         LET history == IF 0 \in f THEN <<>> ELSE _get_conversation_history_from_db(store)
             user_msg == [role |-> "user", content |-> user_message]
             msgs == (<<[role |-> "system", content |-> SystemMessage]>> \o history) \o <<user_msg>>
         IN /\ Apply(Outcome("call1", store, msgs, returned,
                             [turn_log EXCEPT !.msgs = Append(@, user_msg)]))
            /\ api_calls' = api_calls + 1
            /\ tools_sent' = TRUE
    /\ last_resp' = NoResp
    /\ UNCHANGED <<loaded, db_faulty, id_seq, agent_vars>>

\* lines 164-186: build the messages, store the user row, issue the first call.
\* A failed read gives an empty history (db_accessor.py 104-106); a failed insert raises
\* out of chat_completion_with_tools before the call is made.
StartTurn ==
    /\ pc = "idle"
    /\ api_calls < CallLimit
    /\ \E user_message \in UserMsgs, f \in FaultChoices :
         LET history == IF 0 \in f THEN <<>> ELSE _get_conversation_history_from_db(store)
             user_msg == [role |-> "user", content |-> user_message]
             msgs == (<<[role |-> "system", content |-> SystemMessage]>> \o history) \o <<user_msg>>
         IN IF 1 \in f
            THEN /\ Apply(Outcome("idle", store, <<>>, Raised, FailedLog))
                 /\ UNCHANGED <<api_calls, tools_sent>>
            ELSE /\ Apply(Outcome("call1", insert_conversation(store, "user", user_message), msgs,
                                  returned, [turn_log EXCEPT !.msgs = Append(@, user_msg)]))
                 /\ api_calls' = api_calls + 1
                 /\ tools_sent' = TRUE
    /\ last_resp' = NoResp
    /\ UNCHANGED <<loaded, db_faulty, id_seq, agent_vars>>

\* the first create() returns or raises; the handler runs to the second create() or to return
FirstResponse ==
    /\ pc = "call1"
    /\ \E resp \in FirstResponses(api_calls), f \in FaultChoices :
         \E wx \in WeatherOutcomes(IF resp.failed THEN <<>> ELSE resp.tool_calls) :
            LET o == AfterFirstCall(resp, wx, f)
            IN /\ o.pc = "call2" => api_calls < CallLimit
               /\ Apply(o)
               /\ api_calls' = IF o.pc = "call2" THEN api_calls + 1 ELSE api_calls
               /\ tools_sent' = IF o.pc = "call2" THEN FALSE ELSE tools_sent
               /\ last_resp' = resp
    /\ UNCHANGED <<loaded, db_faulty, id_seq, agent_vars>>

\* the second create() returns or raises
SecondResponse ==
    /\ pc = "call2"
    /\ \E resp \in SecondResponses, f \in FaultChoices :
         Apply(AfterSecondCall(resp, f)) /\ last_resp' = resp
    /\ UNCHANGED <<loaded, api_calls, tools_sent, db_faulty, id_seq, agent_vars>>

\* the 'clear' command: clear_conversation_history (db_accessor.py 125-141);
\* a failed DELETE is rolled back and reported as 0 rows
Clear ==
    /\ pc = "idle"
    /\ store # <<>>
    /\ \E f \in FaultChoices :
         IF 1 \in f
         THEN UNCHANGED <<store, turn_log>>
         ELSE store' = <<>> /\ turn_log' = [ok |-> TRUE, msgs |-> <<>>]
    /\ last_resp' = NoResp
    /\ UNCHANGED <<loaded, pc, messages, tools_sent, returned, api_calls, db_faulty, id_seq,
                   agent_vars>>

\* the state of a freshly constructed agent (movie_recommender_agent.py 31-40)
AgentInit ==
    /\ conversation_history = <<>>
    /\ turn_calls = 0
    /\ turn_resps = 0
    /\ executed = <<>>
    /\ emitted = NoneStr
    /\ turn_end = "none"

\* the state of a freshly constructed client on an empty table
ClientInit ==
    /\ id_seq = 0
    /\ last_resp = NoResp
    /\ messages = <<>>
    /\ tools_sent = FALSE
    /\ turn_log = [ok |-> TRUE, msgs |-> <<>>]
    /\ returned = NoneStr
    /\ api_calls = 0
    /\ loaded = <<>>

Init ==
    /\ store = <<>>
    /\ pc = "idle"
    /\ db_faulty = FALSE
    /\ ClientInit
    /\ AgentInit

Next == StartTurn \/ FirstResponse \/ SecondResponse \/ Clear

Spec == Init /\ [][Next]_vars

\* the same client against a store whose operations may fail
InitFaulty ==
    /\ store = <<>>
    /\ pc = "idle"
    /\ db_faulty = TRUE
    /\ ClientInit
    /\ AgentInit

SpecFaulty == InitFaulty /\ [][Next]_vars

-----------------------------------------------------------------------------
(* The reconstruction applied to an arbitrary table *)

MaxRows == 4

CallsPayload(content, shape) == json_dumps(tool_calls_data(content, BatchOf(shape, 1)))
ResultsPayload(ks) ==
    json_dumps(tool_results_data(
        [i \in 1..Len(ks) |-> [tool_call_id |-> CallId(1, ks[i]),
                               content |-> Fmt("Weather in {city}: ...", Raw("Paris"))]]))

\* rows a table can hold: those the client writes, and damaged ones
RowSamples ==
    { Row("user", Raw("weather in Paris?")),
      Row("assistant", Raw("ok")),
      Row("system", Fmt("Error: {error_msg}", ErrorMsg)),
      Row("assistant", CallsPayload(NoneStr, <<<<"get_weather", ArgsParis>>>>)),
      Row("assistant", CallsPayload(Raw("checking"),
                                    <<<<"get_weather", ArgsParis>>, <<"get_weather", ArgsNoCity>>>>)),
      Row("tool", ResultsPayload(<<1>>)),
      Row("tool", ResultsPayload(<<1, 2>>)),
      Row("tool", ResultsPayload(<<2>>)),
      Row("tool", Fmt("Weather tool error for {city}: {e}", Raw("Paris"))),
      Row("assistant", Json(JDict([tool_calls |-> JScalar]))),
      Row("assistant", Json(JScalar)) }

RECURSIVE RowSeqs(_)
RowSeqs(n) ==
    IF n = 0 THEN {<<>>}
    ELSE LET shorter == RowSeqs(n - 1)
         IN shorter \cup {Append(t, r) : t \in {u \in shorter : Len(u) = n - 1}, r \in RowSamples}

InitRecon ==
    /\ store \in RowSeqs(MaxRows)
    /\ pc = "load"
    /\ db_faulty = FALSE
    /\ ClientInit
    /\ AgentInit

LoadHistory ==
    /\ pc = "load"
    /\ loaded' = _get_conversation_history_from_db(store)
    /\ pc' = "loaded"
    /\ UNCHANGED <<store, messages, tools_sent, turn_log, returned, api_calls, db_faulty, id_seq,
                   agent_vars, last_resp>>

NextRecon == LoadHistory

SpecRecon == InitRecon /\ [][NextRecon]_vars

-----------------------------------------------------------------------------
(* multi-hop/movie_recommender_agent.py: data and tools *)

\* lines 44-50: (user_id, movie_id, review)
past_reviews ==
    << <<101, 1, "Loved it, great sci-fi!">>,
       <<101, 2, "Okayish, too slow">>,
       <<101, 3, "Amazing visuals, would watch again">>,
       <<202, 2, "Fantastic drama">>,
       <<202, 4, "Not my type">> >>

\* lines 53-62: (movie_id, movie_name, [genres])
movies ==
    << <<1, "Interstellar", <<"Sci-Fi", "Adventure", "Drama">> >>,
       <<2, "The Irishman", <<"Crime", "Drama">> >>,
       <<3, "Blade Runner 2049", <<"Sci-Fi", "Thriller">> >>,
       <<4, "La La Land", <<"Romance", "Musical", "Drama">> >>,
       <<5, "Arrival", <<"Sci-Fi", "Drama">> >>,
       <<6, "Mad Max: Fury Road", <<"Action", "Adventure", "Sci-Fi">> >>,
       <<7, "Whiplash", <<"Drama", "Music">> >>,
       <<8, "Inception", <<"Sci-Fi", "Action", "Thriller">> >> >>

Range(seq) == {seq[n] : n \in 1..Len(seq)}

\* Python's order of the catalog's genre names (sorted())
GenresSorted ==
    <<"Action", "Adventure", "Crime", "Drama", "Music", "Musical", "Romance", "Sci-Fi", "Thriller">>

\* str.strip() over the genre texts of the model
StripGenre(g) ==
    CASE g = " Drama" -> "Drama"
      [] OTHER -> g

\* lines 140-145
fetch_past_reviews(user_id) ==
    LET mine == SelectSeq(past_reviews, LAMBDA r : r[1] = user_id)
    IN [n \in 1..Len(mine) |-> <<mine[n][2], mine[n][3]>>]

\* lines 147-153
get_genre(movie_ids) ==
    LET genre_set == UNION {Range(movies[n][3]) : n \in {m \in 1..Len(movies) : movies[m][1] \in Range(movie_ids)}}
    IN SelectSeq(GenresSorted, LAMBDA g : g \in genre_set)

\* lines 155-164 without the strip of line 157 (mutant)
get_moviesUntrimmed(genres, past_ids) ==
    LET genre_set == Range(genres)
        past_set == Range(past_ids)
        hits == SelectSeq(movies, LAMBDA m : m[1] \notin past_set /\ Range(m[3]) \cap genre_set # {})
    IN [n \in 1..Len(hits) |-> hits[n][2]]

\* lines 155-164
get_movies(genres, past_ids) ==
    LET genre_set == {StripGenre(g) : g \in Range(genres)}
        past_set == Range(past_ids)
        hits == SelectSeq(movies, LAMBDA m : m[1] \notin past_set /\ Range(m[3]) \cap genre_set # {})
    IN [n \in 1..Len(hits) |-> hits[n][2]]

\* lines 166-168
send_response(response) == response

\* json.dumps of the tools' results
ReviewsJson(result) ==
    json_dumps(JList([n \in 1..Len(result) |-> JList(<<JNum(result[n][1]), Raw(result[n][2])>>)]))
NamesJson(result) == json_dumps(JList([n \in 1..Len(result) |-> Raw(result[n])]))

\* int(x) succeeds on a number; None and other values raise
int_raises(v) == v.t # "num"
\* list(map(int, v)) succeeds on a list of numbers
int_list_raises(v) == v.t # "list" \/ \E n \in 1..Len(v.items) : v.items[n].t # "num"
int_list(v) == [n \in 1..Len(v.items) |-> v.items[n].n]
\* list(map(str, v)) over a list of strings
str_list_raises(v) == v.t # "list"
str_list(v) == [n \in 1..Len(v.items) |-> v.items[n].text]

JNone == [t |-> "null"]

\* lines 249-294: the result content of a call to one of the three lookup tools;
\* raised when reading the arguments raises
LookupResult(fname, args) ==
    IF ~isinstance_dict(args) THEN [raised |-> TRUE, content |-> NoneStr]
    ELSE CASE fname = "fetch_past_reviews" ->
                LET user_id == dict_get(args, "user_id", JNone)
                IN IF int_raises(user_id) THEN [raised |-> TRUE, content |-> NoneStr]
                   ELSE [raised |-> FALSE, content |-> ReviewsJson(fetch_past_reviews(user_id.n))]
           [] fname = "getGenre" ->
                LET movie_ids == dict_get(args, "movie_ids", JList(<<>>))
                IN IF int_list_raises(movie_ids) THEN [raised |-> TRUE, content |-> NoneStr]
                   ELSE [raised |-> FALSE, content |-> NamesJson(get_genre(int_list(movie_ids)))]
           [] OTHER ->
                LET genres == dict_get(args, "genres", JList(<<>>))
                    pastIds == dict_get(args, "pastIds", JList(<<>>))
                IN IF str_list_raises(genres) \/ int_list_raises(pastIds)
                   THEN [raised |-> TRUE, content |-> NoneStr]
                   ELSE [raised |-> FALSE,
                         content |-> NamesJson(get_movies(str_list(genres), int_list(pastIds)))]

LookupTools == {"fetch_past_reviews", "getGenre", "getMovies"}

\* lines 252-256 without the tool_call_id (mutant)
ToolMsgUnkeyed(id, content) == [role |-> "tool", tool_call_id |-> PyNone, content |-> content]

\* lines 252-256 (and 268-272, 284-288, 299-303): the tool message of one call
ToolMsg(id, content) == [role |-> "tool", tool_call_id |-> id, content |-> content]

\* lines 243-247 recording the whole batch with every call (mutant)
HistoryCallEntryWholeBatch(content, all_tool_calls, tool_call) ==
    [role |-> "assistant", content |-> or_empty(content), tool_calls |-> all_tool_calls]

\* lines 243-247: the history entry of one tool call
HistoryCallEntry(content, all_tool_calls, tool_call) ==
    [role |-> "assistant", content |-> or_empty(content), tool_calls |-> <<tool_call>>]

\* lines 238-321: the for loop over all_tool_calls from call k on.
\* st = [status, msgs, hist, executed, emitted]; status "run" while the loop runs,
\* "sent" after the break of line 312, otherwise the exception that left run()
RECURSIVE BatchLoop(_, _, _)
BatchLoop(resp, k, st) ==
    IF k > Len(resp.tool_calls) \/ st.status # "run"
    THEN st
    ELSE LET tool_call == resp.tool_calls[k]
             fname == tool_call.function.name
         IN IF json_loads_raises(tool_call.function.arguments)
            THEN [st EXCEPT !.status = "JSONDecodeError"]
            ELSE LET args == json_loads(tool_call.function.arguments)
                     hist1 == Append(st.hist, HistoryCallEntry(resp.content, resp.tool_calls, tool_call))
                 IN IF fname \in LookupTools
                    THEN LET r == LookupResult(fname, args)
                         IN IF r.raised
                            THEN [st EXCEPT !.status = "ArgumentError", !.hist = hist1]
                            ELSE BatchLoop(resp, k + 1,
                                     [st EXCEPT !.msgs = Append(@, ToolMsg(tool_call.id, r.content)),
                                                !.hist = Append(hist1, ToolMsg(tool_call.id, r.content)),
                                                !.executed = Append(@, tool_call.id)])
                    ELSE IF fname = "sendResponse"
                    THEN IF ~isinstance_dict(args)
                         THEN [st EXCEPT !.status = "ArgumentError", !.hist = hist1]
                         ELSE LET response_text == send_response(dict_get(args, "response", Raw("")))
                              IN [status |-> "sent",
                                  msgs |-> Append(st.msgs, ToolMsg(tool_call.id, response_text)),
                                  hist |-> (hist1 \o <<ToolMsg(tool_call.id, response_text)>>)
                                               \o <<[role |-> "assistant", content |-> response_text]>>,
                                  executed |-> st.executed,
                                  emitted |-> response_text]
                    ELSE \* lines 314-321: tool_results_for_history is not defined
                         [st EXCEPT !.status = "NameError",
                                    !.msgs = Append(@, ToolMsg(tool_call.id,
                                                 json_dumps(JDict([error |-> Raw("Unknown tool")])))),
                                    !.hist = hist1]

\* the outcome of a step of run(): the agent's next state
AgentOutcome(p, msgs, hist, exec, out, how) ==
    [pc |-> p, messages |-> msgs, conversation_history |-> hist, executed |-> exec,
     emitted |-> out, turn_end |-> how]

\* lines 217-222 and 338-343: a response without tool calls ends the turn
FinalContent(resp, hist) ==
    LET final_content == strip(or_empty(resp.content))
    IN IF truthy(final_content)
       THEN AgentOutcome("input", <<>>, Append(hist, [role |-> "assistant", content |-> final_content]),
                         <<>>, final_content, "final")
       ELSE AgentOutcome("input", <<>>, hist, <<>>, emitted, "final")

\* lines 225-336 with a ceiling of three hops per turn (mutant)
HopCapped(resp, hist) ==
    LET assistant_msg == [role |-> "assistant", content |-> or_empty(resp.content),
                          tool_calls |-> resp.tool_calls]
        st == BatchLoop(resp, 1,
                  [status |-> "run", msgs |-> Append(messages, assistant_msg), hist |-> hist,
                   executed |-> <<>>, emitted |-> emitted])
    IN IF st.status = "run" /\ turn_calls < 3
       THEN AgentOutcome("call", st.msgs, st.hist, st.executed, st.emitted, "none")
       ELSE IF st.status \in {"sent", "run"}
       THEN AgentOutcome("input", <<>>, st.hist, st.executed, st.emitted, "sendResponse")
       ELSE AgentOutcome("stopped", st.msgs, st.hist, st.executed, st.emitted, st.status)

\* lines 225-336: a response with tool calls
Hop(resp, hist) ==
    LET assistant_msg == [role |-> "assistant", content |-> or_empty(resp.content),
                          tool_calls |-> resp.tool_calls]
        st == BatchLoop(resp, 1,
                  [status |-> "run", msgs |-> Append(messages, assistant_msg), hist |-> hist,
                   executed |-> <<>>, emitted |-> emitted])
    IN IF st.status = "run"
       THEN AgentOutcome("call", st.msgs, st.hist, st.executed, st.emitted, "none")
       ELSE IF st.status = "sent"
       THEN AgentOutcome("input", <<>>, st.hist, st.executed, st.emitted, "sendResponse")
       ELSE AgentOutcome("stopped", st.msgs, st.hist, st.executed, st.emitted, st.status)

\* lines 204-343, from the return of a create() on.  A failed create() raises out of
\* run(); line 213 records the user message once the first call of the turn returned.
AfterAgentCall(resp) ==
    IF resp.failed
    THEN AgentOutcome("stopped", messages, conversation_history, <<>>, emitted, "EndpointError")
    ELSE LET hist == IF turn_calls = 1
                     THEN Append(conversation_history, messages[Len(messages)])
                     ELSE conversation_history
         IN IF Len(resp.tool_calls) = 0 THEN FinalContent(resp, hist) ELSE Hop(resp, hist)

-----------------------------------------------------------------------------
(* What the environment can supply to the movie agent *)

MaxAgentCalls == 4

AgentSystemMessage == Raw("You are a helpful movie recommendation assistant with access to tools.")
AgentUserInputs == {Raw("recommend me a movie, my id is 101")}

ArgsUser == Json(JDict([user_id |-> JNum(101)]))
ArgsNoUser == Json(JDict([user |-> JNum(101)]))
ArgsMovieIds == Json(JDict([movie_ids |-> JList(<<JNum(1), JNum(3)>>)]))
ArgsGenres ==
    Json(JDict([genres |-> JList(<<Raw("Sci-Fi"), Raw(" Drama")>>),
                pastIds |-> JList(<<JNum(1), JNum(2), JNum(3)>>)]))
ArgsResponse == Json(JDict([response |-> Raw("Try Arrival and Inception. ")]))
ArgsTruncated == Raw("{movie_ids: [1")

AgentBatchShapes ==
    { <<<<"fetch_past_reviews", ArgsUser>>>>,
      <<<<"getGenre", ArgsMovieIds>>>>,
      <<<<"getMovies", ArgsGenres>>>>,
      <<<<"sendResponse", ArgsResponse>>>>,
      <<<<"fetch_past_reviews", ArgsUser>>, <<"getGenre", ArgsMovieIds>>>>,
      <<<<"fetch_past_reviews", ArgsUser>>, <<"sendResponse", ArgsResponse>>, <<"getGenre", ArgsMovieIds>>>>,
      <<<<"getRatings", ArgsMovieIds>>>>,
      <<<<"getRatings", ArgsMovieIds>>, <<"sendResponse", ArgsResponse>>>>,
      <<<<"fetch_past_reviews", ArgsNoUser>>>>,
      <<<<"getGenre", ArgsTruncated>>>> }

AgentAnswerContents == {Raw(" ok "), Raw("  "), NoneStr}

AgentResponses(n) ==
    {ApiError}
    \cup {ApiMessage(c, <<>>) : c \in AgentAnswerContents}
    \cup {ApiMessage(NoneStr, BatchOf(sh, n)) : sh \in AgentBatchShapes}

-----------------------------------------------------------------------------
(* Actions of the movie agent: run() *)

ApplyAgent(o) ==
    /\ pc' = o.pc
    /\ messages' = o.messages
    /\ conversation_history' = o.conversation_history
    /\ executed' = o.executed
    /\ emitted' = o.emitted
    /\ turn_end' = o.turn_end

client_vars == <<store, loaded, tools_sent, turn_log, returned, db_faulty, id_seq>>

\* lines 189-209: a non-empty input that is no exit word starts a turn and its first call
UserInput ==
    /\ pc = "input"
    /\ api_calls < MaxAgentCalls
    /\ \E user_input \in AgentUserInputs :
         messages' = (<<[role |-> "system", content |-> AgentSystemMessage]>> \o conversation_history)
                         \o <<[role |-> "user", content |-> user_input]>>
    /\ pc' = "call"
    /\ api_calls' = api_calls + 1
    /\ turn_calls' = 1
    /\ turn_resps' = 0
    /\ turn_end' = "none"
    /\ last_resp' = NoResp
    /\ UNCHANGED <<conversation_history, executed, emitted, client_vars>>

\* lines 193-195: exit, quit or bye leaves the loop
Exit ==
    /\ pc = "input"
    /\ pc' = "stopped"
    /\ last_resp' = NoResp
    /\ UNCHANGED <<messages, api_calls, conversation_history, turn_calls, turn_resps, executed,
                   emitted, turn_end, client_vars>>

\* a create() returns or raises; run() goes on to the next create(), to input() or out
AgentResponse ==
    /\ pc = "call"
    /\ \E resp \in AgentResponses(api_calls) :
         LET o == AfterAgentCall(resp)
         IN /\ o.pc = "call" => api_calls < MaxAgentCalls
            /\ ApplyAgent(o)
            /\ last_resp' = resp
            /\ api_calls' = IF o.pc = "call" THEN api_calls + 1 ELSE api_calls
            /\ turn_calls' = IF o.pc = "call" THEN turn_calls + 1 ELSE turn_calls
            /\ turn_resps' = turn_resps + 1
    /\ UNCHANGED client_vars

InitAgent ==
    /\ store = <<>>
    /\ pc = "input"
    /\ db_faulty = FALSE
    /\ ClientInit
    /\ AgentInit

NextAgent == UserInput \/ Exit \/ AgentResponse

SpecAgent == InitAgent /\ [][NextAgent]_vars

-----------------------------------------------------------------------------
(* Pairing of tool calls and tool messages in a message list *)

IsToolMsg(m) == m.role = "tool"
HasToolCalls(m) == m.role = "assistant" /\ "tool_calls" \in DOMAIN m
CallIds(m) == {m.tool_calls[n].id : n \in 1..Len(m.tool_calls)}

\* index of the nearest message before j that is not a tool message (0: none)
Owner(msgs, j) ==
    LET before == {i \in 1..(j - 1) : ~IsToolMsg(msgs[i])}
    IN IF before = {} THEN 0 ELSE CHOOSE i \in before : \A i2 \in before : i2 <= i

\* indexes of the tool messages directly following message i
Followers(msgs, i) ==
    {j \in (i + 1)..Len(msgs) : \A n \in (i + 1)..j : IsToolMsg(msgs[n])}

\* every tool message follows, with only tool messages in between, an assistant
\* message whose tool_calls hold its tool_call_id
ToolMessagesOwned(msgs) ==
    \A j \in 1..Len(msgs) :
        IsToolMsg(msgs[j]) =>
            /\ Owner(msgs, j) # 0
            /\ HasToolCalls(msgs[Owner(msgs, j)])
            /\ "tool_call_id" \in DOMAIN msgs[j]
            /\ msgs[j].tool_call_id \in CallIds(msgs[Owner(msgs, j)])

\* the assistant message at i is followed by exactly one tool message per call
GroupComplete(msgs, i) ==
    /\ Cardinality(Followers(msgs, i)) = Len(msgs[i].tool_calls)
    /\ \A n \in 1..Len(msgs[i].tool_calls) :
          Cardinality({j \in Followers(msgs, i) :
              /\ "tool_call_id" \in DOMAIN msgs[j]
              /\ msgs[j].tool_call_id = msgs[i].tool_calls[n].id}) = 1

\* I1 over a whole message list
Paired(msgs) ==
    /\ ToolMessagesOwned(msgs)
    /\ \A i \in 1..Len(msgs) : HasToolCalls(msgs[i]) => GroupComplete(msgs, i)

ToolMsgsOf(msgs) == SelectSeq(msgs, IsToolMsg)

-----------------------------------------------------------------------------
(* C1..C5, C7: reconstruction and the persistence client *)

\* C1 (as claimed): whatever rows are stored, the reconstructed log is paired: every
\* tool message matches an id of the assistant tool-calls message it follows and every
\* id of each tool-calls message is answered exactly once (unpairable groups are absent).
C1_ReconstructedLogPaired == pc = "loaded" => Paired(loaded)

\* row i is an assistant tool-call batch row with no tool row after it
DanglingBatch(table, i) ==
    /\ IsBatchPayload(table[i].role, table[i].response)
    /\ i = Len(table) \/ table[i + 1].role # "tool"

RemoveAt(seq, i) == SubSeq(seq, 1, i - 1) \o SubSeq(seq, i + 1, Len(seq))

\* C2 (as claimed): a batch row that no tool-results row follows is reconstructed as if
\* it were absent: the log is the log of the table without that row.
C2_DanglingBatchIgnored ==
    pc = "loaded" =>
        \A i \in 1..Len(store) :
            DanglingBatch(store, i) =>
                loaded = _get_conversation_history_from_db(RemoveAt(store, i))

OrphanToolRow(table, j) ==
    /\ table[j].role = "tool"
    /\ j = 1 \/ ~IsBatchPayload(table[j - 1].role, table[j - 1].response)

RECURSIVE OwedToolMsgs(_, _)
OwedToolMsgs(table, j) ==
    IF j > Len(table) THEN <<>>
    ELSE (IF table[j].role = "tool" /\ ~OrphanToolRow(table, j)
          THEN ToolGroup(table, j - 1).msgs ELSE <<>>) \o OwedToolMsgs(table, j + 1)

\* C4: the tool messages of the reconstructed log are those of the tool rows that
\* directly follow a batch row and nothing else: no orphan tool row yields a tool message.
C4_OrphanToolRowsDropped ==
    pc = "loaded" =>
        ToolMsgsOf(loaded) =
            IF ScanHistory(get_conversation_history(store), 1, <<>>).raised
            THEN <<>> ELSE OwedToolMsgs(store, 1)

\* C4 witness: a table with an orphan tool row and a paired batch is reconstructed
C4_Witness ==
    /\ pc = "loaded"
    /\ \E j \in 1..Len(store) : OrphanToolRow(store, j)
    /\ ToolMsgsOf(loaded) # <<>>

\* C5 (as claimed): after completed turns from an empty store, the reconstructed log
\* equals, message by message, what the turns built in memory.
C5_RoundTrip ==
    (pc = "idle" /\ turn_log.ok) =>
        _get_conversation_history_from_db(store) = turn_log.msgs

\* the last assistant tool-calls message of a list
LastBatchIndex(msgs) ==
    CHOOSE i \in 1..Len(msgs) :
        /\ HasToolCalls(msgs[i])
        /\ \A i2 \in (i + 1)..Len(msgs) : ~HasToolCalls(msgs[i2])

\* C7 (as claimed): the second call of a turn carries one tool message per call of the
\* batch, and the tool-results row holds one result per call.
C7_OneToolMessagePerCall ==
    pc = "call2" =>
        LET i == LastBatchIndex(messages)
            results == json_loads(store[Len(store)].response).d.tool_results.items
        IN /\ GroupComplete(messages, i)
           /\ Len(results) = Len(messages[i].tool_calls)

-----------------------------------------------------------------------------
(* C6, C8..C10: the movie agent *)

\* C6: every message list the movie agent passes to the Model Endpoint satisfies I1:
\* each assistant message with N tool calls is directly followed by exactly N tool
\* messages answering its N ids, and every tool message is owned.
C6_AgentRequestsPaired == pc = "call" => Paired(messages)

\* C6 witness: a hop of two calls goes out with, in the carried history, a turn that
\* sendResponse ended as the second call of a longer batch
C6_Witness ==
    /\ pc = "call"
    /\ \E i \in 1..Len(messages) :
          HasToolCalls(messages[i]) /\ Len(messages[i].tool_calls) = 2
    /\ \E i \in 1..Len(messages) :
          /\ HasToolCalls(messages[i])
          /\ messages[i].tool_calls[1].function.name = "sendResponse"
          /\ messages[i].tool_calls[1].id.k = 2

IsMessage(resp) == "failed" \in DOMAIN resp /\ ~resp.failed

\* position of the first sendResponse call of a batch (0: none)
SendIndex(tool_calls) ==
    LET at == {n \in 1..Len(tool_calls) : tool_calls[n].function.name = "sendResponse"}
    IN IF at = {} THEN 0 ELSE CHOOSE n \in at : \A n2 \in at : n <= n2

ResponseArg(tool_call) ==
    IF json_loads_raises(tool_call.function.arguments) THEN NoneStr
    ELSE dict_get(json_loads(tool_call.function.arguments), "response", Raw(""))

\* C8 (as claimed): once a batch containing sendResponse is handled, the calls before
\* it ran and no other, its response argument is the emitted answer and the last
\* assistant entry of conversation_history, and the agent awaits input with no call pending.
C8_SendResponseEndsTurn ==
    (IsMessage(last_resp) /\ SendIndex(last_resp.tool_calls) # 0) =>
        LET p == SendIndex(last_resp.tool_calls)
            text == ResponseArg(last_resp.tool_calls[p])
        IN /\ pc = "input"
           /\ executed = [n \in 1..(p - 1) |-> last_resp.tool_calls[n].id]
           /\ emitted = text
           /\ conversation_history # <<>>
           /\ conversation_history[Len(conversation_history)] = [role |-> "assistant", content |-> text]

\* C9 (as claimed): a handled response leaves the turn ended (the agent awaiting input
\* or stopped) only if it is a message with zero tool calls or with a sendResponse call.
C9_TurnEndsOnlyOnFinalOrSend ==
    (last_resp # NoResp /\ pc \in {"input", "stopped"}) =>
        /\ IsMessage(last_resp)
        /\ Len(last_resp.tool_calls) = 0 \/ SendIndex(last_resp.tool_calls) # 0

\* C10 (as claimed): when the k-th response of a turn is the first with zero tool calls
\* or with sendResponse (a turn gets a k-th response only if the earlier ones held
\* well-formed lookup calls), the turn has ended after exactly k calls, awaiting input.
C10_TurnEndsAfterKCalls ==
    (IsMessage(last_resp) /\ (Len(last_resp.tool_calls) = 0 \/ SendIndex(last_resp.tool_calls) # 0)) =>
        /\ pc = "input"
        /\ turn_end \in {"final", "sendResponse"}
        /\ turn_calls = turn_resps

-----------------------------------------------------------------------------
(* C11, C15: failures in the movie agent *)

KnownTools == LookupTools \cup {"sendResponse"}

\* positions of the calls of a batch that name no tool of the agent
UnknownCalls(tool_calls) ==
    {n \in 1..Len(tool_calls) : tool_calls[n].function.name \notin KnownTools}

UnknownToolMsg(id) == ToolMsg(id, json_dumps(JDict([error |-> Raw("Unknown tool")])))

\* C11 (as claimed): once a batch with a call to an unknown tool (and no sendResponse)
\* is handled, the next Model Endpoint call is pending and its message list holds, for
\* each unknown call, a tool message with that call's id and the 'Unknown tool' error.
C11_UnknownToolNotFatal ==
    (IsMessage(last_resp) /\ UnknownCalls(last_resp.tool_calls) # {}
        /\ SendIndex(last_resp.tool_calls) = 0) =>
        /\ pc = "call"
        /\ \A n \in UnknownCalls(last_resp.tool_calls) :
              \E j \in 1..Len(messages) : messages[j] = UnknownToolMsg(last_resp.tool_calls[n].id)

\* C15 (as claimed): a step of the agent in which create() fails leaves the agent
\* awaiting the next user input, conversation_history still holding what it held.
C15_EndpointFailureEndsTurnOnly ==
    [][(pc = "call" /\ last_resp' = ApiError) =>
          (pc' = "input" /\ conversation_history' = conversation_history)]_vars

-----------------------------------------------------------------------------
(* C12..C14: failures in the persistence client *)

\* positions of the get_weather calls of a batch whose arguments json.loads rejects
BadArgCalls(tool_calls) ==
    {n \in 1..Len(tool_calls) :
        /\ Dispatches(tool_calls[n].function.name)
        /\ json_loads_raises(tool_calls[n].function.arguments)}

\* C12 (as claimed): once a first response with a get_weather call of unparseable
\* arguments is handled, the second Model Endpoint call is pending and its message
\* list holds a tool message for that call's id.
C12_BadArgumentsLocal ==
    (IsMessage(last_resp) /\ BadArgCalls(last_resp.tool_calls) # {}) =>
        /\ pc = "call2"
        /\ \A n \in BadArgCalls(last_resp.tool_calls) :
              \E j \in 1..Len(messages) :
                  /\ IsToolMsg(messages[j])
                  /\ messages[j].tool_call_id = last_resp.tool_calls[n].id

\* the rows line 76 writes when a lookup fails
WeatherErrorRows(table) ==
    {j \in 1..Len(table) :
        /\ table[j].role = "tool"
        /\ table[j].response.k = "fmt"
        /\ table[j].response.text = "Weather tool error for {city}: {e}"}

\* the error string get_weather returns when a lookup fails (line 74)
IsLookupError(content) ==
    content.k = "fmt" /\ content.text = "Error fetching weather for {city}: {e}"

\* C13 (as claimed): a step handling a first response during which weather lookups
\* fail (each failure writes its row at line 76) ends with the second call pending; its
\* message list carries, after the batch's assistant message, one error tool message
\* per failed lookup, each with the id of a call of the batch, and the store ends with
\* the batch row and a tool-results row holding the same results.
C13_LookupFailureLocal ==
    [][(/\ pc = "call1"
        /\ Cardinality(WeatherErrorRows(store')) > Cardinality(WeatherErrorRows(store))) =>
          LET i == LastBatchIndex(messages')
              failed == {j \in Followers(messages', i) : IsLookupError(messages'[j].content)}
              tool_msgs == SubSeq(messages', i + 1, Len(messages'))
              n == Len(store')
          IN /\ pc' = "call2"
             /\ i # 0
             /\ messages'[i].tool_calls = last_resp'.tool_calls
             /\ Cardinality(failed) =
                    Cardinality(WeatherErrorRows(store')) - Cardinality(WeatherErrorRows(store))
             /\ \A j \in failed : messages'[j].tool_call_id \in CallIds(messages'[i])
             /\ store'[n - 1] = Row("assistant",
                    json_dumps(tool_calls_data(last_resp'.content, last_resp'.tool_calls)))
             /\ store'[n].role = "tool"
             /\ ToolGroup(store', n - 1).msgs = tool_msgs]_vars

\* C14 (as claimed): a step in which a Model Endpoint call fails returns the error
\* string and leaves the store exactly as it was when the call was issued.
C14_FailedCallWritesNothing ==
    [][(pc \in {"call1", "call2"} /\ last_resp' = ApiError) =>
          (returned' = ErrorMsg /\ store' = store)]_vars

-----------------------------------------------------------------------------
(* C16: store failures at the start of a turn *)

\* C16 (as claimed): whenever the first Model Endpoint call of a turn is pending, even
\* in runs where store operations fail, its message list is the system message, the
\* log reconstructed from the rows stored before the turn's user row, and the user
\* message: no call goes out with the history replaced by an empty one.
C16_NoCallOnEmptiedHistory ==
    pc = "call1" =>
        LET before == SubSeq(store, 1, Len(store) - 1)
            user_msg == [role |-> "user", content |-> store[Len(store)].response]
        IN messages = (<<[role |-> "system", content |-> SystemMessage]>>
                          \o _get_conversation_history_from_db(before)) \o <<user_msg>>

-----------------------------------------------------------------------------
(* C17: reconstruction never raises *)

MessageRoles == {"user", "assistant", "system", "tool"}

\* the while loop of the reconstruction leaves by an exception on this table
ScanRaises(table) == ScanHistory(get_conversation_history(table), 1, <<>>).raised

\* a message of a message list (and not an exception in its place)
IsChatMessage(m) ==
    /\ {"role", "content"} \subseteq DOMAIN m
    /\ m.role \in MessageRoles

\* C17: whatever rows are stored, malformed batch records included, the reconstruction
\* returns a list of messages and never an exception; where its loop raises, the list
\* is empty.
C17_ReconstructionNeverRaises ==
    pc = "loaded" =>
        /\ \A i \in 1..Len(loaded) : IsChatMessage(loaded[i])
        /\ ScanRaises(store) => loaded = <<>>

\* C17 witness: a table whose malformed batch record follows well-formed rows is loaded
C17_Witness ==
    /\ pc = "loaded"
    /\ Len(store) >= 2
    /\ store[1].role = "user"
    /\ ScanRaises(store)
    /\ loaded = <<>>

-----------------------------------------------------------------------------
(* persistence/db_accessor.py on its own: the table with its ids and timestamps. *)
(* Here `store` holds the rows in the order they were inserted, `returned` the   *)
(* last call of the accessor with its result, and pc is "cleared" from a clear   *)
(* until the next insert.                                                        *)

MaxInserts == 3
MaxClock == 2

DbRoles == {"user", "assistant"}

\* a row of my_conversations (lines 37-43)
DbRow(id, role, response, timestamp) ==
    [id |-> id, role |-> role, response |-> response, timestamp |-> timestamp]

\* lines 56-76: INSERT ... VALUES (role, response, datetime.now()) RETURNING id;
\* id is the next value of the SERIAL sequence, now the client's clock reading
InsertRow(rows, id, role, response, now) == Append(rows, DbRow(id, role, response, now))

Arrangements(n) == {p \in [1..n -> 1..n] : \A i, j \in 1..n : i # j => p[i] # p[j]}

\* ORDER BY timestamp ASC (lines 84, 92): every arrangement of the rows with
\* non-decreasing timestamps; rows of equal timestamp come in an order the query
\* does not fix
TimestampOrders(rows) ==
    LET n == Len(rows)
        sorted == {p \in Arrangements(n) :
                      \A i, j \in 1..n : i < j => rows[p[i]].timestamp <= rows[p[j]].timestamp}
    IN {[i \in 1..n |-> rows[p[i]]] : p \in sorted}

\* lines 78-106: the lists get_conversation_history(limit) can return; a falsy limit
\* (None, 0) selects every row, another one adds LIMIT to the ascending query
HistoryResults(rows, limit) ==
    {IF limit # 0 /\ limit < Len(o) THEN SubSeq(o, 1, limit) ELSE o : o \in TimestampOrders(rows)}

\* lines 111-123: SELECT COUNT(*)
get_conversation_count(rows) == Len(rows)

\* lines 125-141 without the commit of line 134 (mutant)
clear_conversation_historyUncommitted(rows) == rows

\* lines 125-141: DELETE FROM my_conversations, committed
clear_conversation_history(rows) == <<>>

db_unchanged == <<loaded, messages, tools_sent, turn_log, api_calls, db_faulty, agent_vars, last_resp>>

DbInsert ==
    /\ id_seq < MaxInserts
    /\ \E role \in DbRoles, now \in 1..MaxClock :
         store' = InsertRow(store, id_seq + 1, role, Raw("m"), now)
    /\ id_seq' = id_seq + 1
    /\ returned' = [op |-> "insert_conversation", value |-> id_seq + 1]
    /\ pc' = "db"
    /\ UNCHANGED db_unchanged

DbHistory ==
    /\ \E limit \in 0..MaxInserts : \E rows \in HistoryResults(store, limit) :
         returned' = [op |-> "get_conversation_history", limit |-> limit, value |-> rows]
    /\ UNCHANGED <<store, pc, id_seq, db_unchanged>>

DbCount ==
    /\ returned' = [op |-> "get_conversation_count", value |-> get_conversation_count(store)]
    /\ UNCHANGED <<store, pc, id_seq, db_unchanged>>

DbClear ==
    /\ store' = clear_conversation_history(store)
    /\ returned' = [op |-> "clear_conversation_history", value |-> Len(store)]
    /\ pc' = "cleared"
    /\ UNCHANGED <<id_seq, db_unchanged>>

InitDb ==
    /\ store = <<>>
    /\ pc = "db"
    /\ db_faulty = FALSE
    /\ ClientInit
    /\ AgentInit

NextDb == DbInsert \/ DbHistory \/ DbCount \/ DbClear

SpecDb == InitDb /\ [][NextDb]_vars

-----------------------------------------------------------------------------
(* C18..C20: order, clear and limit *)

LastCall(op) == "op" \in DOMAIN returned /\ returned.op = op

\* C18 (as claimed): get_conversation_history() returns the stored rows in the order
\* of their insertion (increasing id), whatever timestamps the inserts were given.
C18_HistoryInInsertionOrder ==
    (LastCall("get_conversation_history") /\ returned.limit = 0) => returned.value = store

StrictlyTimed(rows) ==
    \A i, j \in 1..Len(rows) : i < j => rows[i].timestamp < rows[j].timestamp

\* C20 (as claimed): on a table of more than n rows stamped in increasing time,
\* get_conversation_history(limit=n), n > 0, returns the n last-inserted rows, oldest first.
C20_LimitReturnsMostRecent ==
    (/\ LastCall("get_conversation_history")
     /\ returned.limit > 0
     /\ Len(store) > returned.limit
     /\ StrictlyTimed(store)) =>
        returned.value = SubSeq(store, Len(store) - returned.limit + 1, Len(store))

-----------------------------------------------------------------------------
(* Two instances of the persistence client on one my_conversations table.  Each  *)
(* instance runs chat_completion_with_tools; the steps of the two interleave at  *)
(* the store operations and at the Model Endpoint calls.  Here pc, messages,     *)
(* last_resp and turn_log are functions of the instance; turn_log[c] holds the   *)
(* rows instance c wrote, in the order it wrote them.                            *)

MaxSharedCalls == 3

Instances == {"A", "B"}

\* what the user of each conversation types
InstanceUserMsg(c) ==
    IF c = "A" THEN Raw("A: weather in Paris?") ELSE Raw("B: weather in Berlin?")

\* responses to the first call: a plain answer, or one get_weather call
SharedFirstResponses(n) ==
    {ApiMessage(Raw("ok"), <<>>),
     ApiMessage(NoneStr, BatchOf(<<<<"get_weather", ArgsParis>>>>, n))}

\* lines 195-231 with the lookup succeeding: the results of the batch
SharedToolResults(tool_calls) ==
    [k \in 1..Len(tool_calls) |->
        [tool_call_id |-> tool_calls[k].id,
         content |-> Fmt("Weather in {city}: ...",
                         dict_get(json_loads(tool_calls[k].function.arguments), "city", Raw("Unknown")))]]

\* lines 164-175: one instance reads the table and builds its message list
SharedStart ==
    /\ \E c \in Instances :
         /\ pc[c] = "idle"
         /\ api_calls < MaxSharedCalls
         /\ messages' = [messages EXCEPT ![c] =
                (<<[role |-> "system", content |-> SystemMessage]>>
                    \o _get_conversation_history_from_db(store))
                    \o <<[role |-> "user", content |-> InstanceUserMsg(c)]>>]
         /\ pc' = [pc EXCEPT ![c] = "user"]
    /\ UNCHANGED <<store, turn_log, last_resp, api_calls>>
    /\ UNCHANGED <<loaded, tools_sent, returned, db_faulty, id_seq, agent_vars>>

\* lines 177-186: the user row is inserted and the first call issued
SharedInsertUser ==
    /\ \E c \in Instances :
         /\ pc[c] = "user"
         /\ store' = insert_conversation(store, "user", InstanceUserMsg(c))
         /\ turn_log' = [turn_log EXCEPT ![c] = insert_conversation(@, "user", InstanceUserMsg(c))]
         /\ pc' = [pc EXCEPT ![c] = "call1"]
    /\ api_calls' = api_calls + 1
    /\ UNCHANGED <<messages, last_resp>>
    /\ UNCHANGED <<loaded, tools_sent, returned, db_faulty, id_seq, agent_vars>>

\* lines 188-245 and 273-281: the first response arrives; a plain answer is stored
\* (line 279), a batch is run and its batch row stored (line 245)
SharedFirstResponse ==
    /\ \E c \in Instances : \E resp \in SharedFirstResponses(api_calls) :
         /\ pc[c] = "call1"
         /\ last_resp' = [last_resp EXCEPT ![c] = resp]
         /\ IF Len(resp.tool_calls) = 0
            THEN LET row == strip(resp.content)
                 IN /\ store' = insert_conversation(store, "assistant", row)
                    /\ turn_log' = [turn_log EXCEPT ![c] = insert_conversation(@, "assistant", row)]
                    /\ pc' = [pc EXCEPT ![c] = "idle"]
                    /\ UNCHANGED messages
            ELSE LET row == json_dumps(tool_calls_data(resp.content, resp.tool_calls))
                     assistant_msg == [role |-> "assistant", content |-> or_empty(resp.content),
                                       tool_calls |-> resp.tool_calls]
                 IN /\ store' = insert_conversation(store, "assistant", row)
                    /\ turn_log' = [turn_log EXCEPT ![c] = insert_conversation(@, "assistant", row)]
                    /\ pc' = [pc EXCEPT ![c] = "results"]
                    /\ messages' = [messages EXCEPT ![c] =
                           (@ \o <<assistant_msg>>)
                               \o ToolMessages(SharedToolResults(resp.tool_calls))]
    /\ UNCHANGED api_calls
    /\ UNCHANGED <<loaded, tools_sent, returned, db_faulty, id_seq, agent_vars>>

\* lines 248-265: the tool-results row is inserted and the second call issued
SharedInsertResults ==
    /\ \E c \in Instances :
         /\ pc[c] = "results"
         /\ LET row == json_dumps(tool_results_data(SharedToolResults(last_resp[c].tool_calls)))
            IN /\ store' = insert_conversation(store, "tool", row)
               /\ turn_log' = [turn_log EXCEPT ![c] = insert_conversation(@, "tool", row)]
         /\ pc' = [pc EXCEPT ![c] = "call2"]
    /\ api_calls' = api_calls + 1
    /\ UNCHANGED <<messages, last_resp>>
    /\ UNCHANGED <<loaded, tools_sent, returned, db_faulty, id_seq, agent_vars>>

\* lines 267-272: the second response arrives and the answer is stored
SharedSecondResponse ==
    /\ \E c \in Instances :
         /\ pc[c] = "call2"
         /\ store' = insert_conversation(store, "assistant", strip(Raw(" ok ")))
         /\ turn_log' = [turn_log EXCEPT ![c] = insert_conversation(@, "assistant", strip(Raw(" ok ")))]
         /\ last_resp' = [last_resp EXCEPT ![c] = ApiMessage(Raw(" ok "), <<>>)]
         /\ pc' = [pc EXCEPT ![c] = "idle"]
    /\ UNCHANGED <<messages, api_calls>>
    /\ UNCHANGED <<loaded, tools_sent, returned, db_faulty, id_seq, agent_vars>>

InitShared ==
    /\ store = <<>>
    /\ pc = [c \in Instances |-> "idle"]
    /\ messages = [c \in Instances |-> <<>>]
    /\ turn_log = [c \in Instances |-> <<>>]
    /\ last_resp = [c \in Instances |-> NoResp]
    /\ tools_sent = FALSE
    /\ returned = NoneStr
    /\ api_calls = 0
    /\ loaded = <<>>
    /\ id_seq = 0
    /\ db_faulty = FALSE
    /\ AgentInit

NextShared ==
    \/ SharedStart
    \/ SharedInsertUser
    \/ SharedFirstResponse
    \/ SharedInsertResults
    \/ SharedSecondResponse

SpecShared == InitShared /\ [][NextShared]_vars

\* the history part of a message list built at lines 164-175
HistoryPart(msgs) == SubSeq(msgs, 2, Len(msgs) - 1)

\* C21 (as claimed): whenever an instance has built the message list of a turn, the
\* history in it is the log reconstructed from the rows that instance wrote before the
\* turn, in the order it wrote them, however the other instance's operations interleave.
C21_InstanceSeesOwnRowsOnly ==
    \A c \in Instances :
        pc[c] = "user" =>
            HistoryPart(messages[c]) = _get_conversation_history_from_db(turn_log[c])

-----------------------------------------------------------------------------
(* C22, C23, C25: turns of the movie agent *)

\* index of the last user message of a list (0: none)
TurnStart(msgs) ==
    LET users == {i \in 1..Len(msgs) : msgs[i].role = "user"}
    IN IF users = {} THEN 0 ELSE CHOOSE i \in users : \A i2 \in users : i2 <= i

\* the messages of the current turn after its user message
TurnPart(msgs) == SubSeq(msgs, TurnStart(msgs) + 1, Len(msgs))

\* the names of the tools called by the assistant messages of a list, in order
CalledNames(msgs) ==
    LET calls == SelectSeq(msgs, HasToolCalls)
    IN [i \in 1..Len(calls) |->
           [n \in 1..Len(calls[i].tool_calls) |-> calls[i].tool_calls[n].function.name]]

ArgOf(tool_call, key) == dict_get(json_loads(tool_call.function.arguments), key, JNone)

\* C22: when the first three hops of a turn called fetch_past_reviews, getGenre and
\* getMovies, one call per hop, and the fourth response is a single sendResponse call,
\* then the list of the fourth call holds after the user message each call followed by
\* the tool message with its id and its tool's result, the fourth call is the last of
\* the turn, the response argument is emitted and the agent awaits input.
C22_FourHopScenario ==
    [][(/\ pc = "call"
        /\ turn_calls = 4
        /\ CalledNames(TurnPart(messages)) =
               << <<"fetch_past_reviews">>, <<"getGenre">>, <<"getMovies">> >>
        /\ IsMessage(last_resp')
        /\ CalledNames(<<[role |-> "assistant", tool_calls |-> last_resp'.tool_calls]>>) =
               << <<"sendResponse">> >>) =>
          LET part == TurnPart(messages)
              c1 == part[1].tool_calls[1]
              c2 == part[3].tool_calls[1]
              c3 == part[5].tool_calls[1]
          IN /\ Len(part) = 6
             /\ part[2] = [role |-> "tool", tool_call_id |-> c1.id,
                           content |-> ReviewsJson(fetch_past_reviews(ArgOf(c1, "user_id").n))]
             /\ part[4] = [role |-> "tool", tool_call_id |-> c2.id,
                           content |-> NamesJson(get_genre(int_list(ArgOf(c2, "movie_ids"))))]
             /\ part[6] = [role |-> "tool", tool_call_id |-> c3.id,
                           content |-> NamesJson(get_movies(str_list(ArgOf(c3, "genres")),
                                                            int_list(ArgOf(c3, "pastIds"))))]
             /\ turn_calls' = 4
             /\ turn_resps' = 4
             /\ pc' = "input"
             /\ emitted' = ArgOf(last_resp'.tool_calls[1], "response")]_vars

\* C22 witness: a turn of four calls has ended by sendResponse after the three
\* lookups, each recorded with its result in conversation_history
C22_Witness ==
    /\ pc = "input"
    /\ turn_calls = 4
    /\ turn_end = "sendResponse"
    /\ emitted = ArgOf(TC(PyNone, "sendResponse", ArgsResponse), "response")
    /\ CalledNames(TurnPart(conversation_history)) =
           << <<"fetch_past_reviews">>, <<"getGenre">>, <<"getMovies">>, <<"sendResponse">> >>

\* C23: when the first response of a turn carries no tool call, whatever its content,
\* no tool is executed, the turn makes no further call and conversation_history gains
\* the turn's user message followed by the assistant answer with the response content
\* (stripped of surrounding white space, as the agent prints it).
C23_NoToolCallEndsTurn ==
    [][(/\ pc = "call"
        /\ turn_resps = 0
        /\ IsMessage(last_resp')
        /\ Len(last_resp'.tool_calls) = 0) =>
          /\ executed' = <<>>
          /\ turn_calls' = 1
          /\ pc' = "input"
          /\ conversation_history' =
                 conversation_history \o
                     << messages[Len(messages)],
                        [role |-> "assistant", content |-> strip(or_empty(last_resp'.content))] >>]_vars

\* a call to one of the three lookup tools whose arguments the tool can read
WellFormedLookup(tool_call) ==
    /\ tool_call.function.name \in {"fetch_past_reviews", "getGenre", "getMovies"}
    /\ ~json_loads_raises(tool_call.function.arguments)
    /\ LET args == json_loads(tool_call.function.arguments)
           name == tool_call.function.name
       IN /\ isinstance_dict(args)
          /\ name = "fetch_past_reviews" => ~int_raises(ArgOf(tool_call, "user_id"))
          /\ name = "getGenre" => ~int_list_raises(ArgOf(tool_call, "movie_ids"))
          /\ name = "getMovies" =>
                 /\ ~str_list_raises(ArgOf(tool_call, "genres"))
                 /\ ~int_list_raises(ArgOf(tool_call, "pastIds"))

LookupsOnly(resp) ==
    /\ IsMessage(resp)
    /\ Len(resp.tool_calls) >= 1
    /\ \A n \in 1..Len(resp.tool_calls) : WellFormedLookup(resp.tool_calls[n])

\* C25: in any hop of a turn, a response whose tool calls are all well-formed calls of
\* the lookup tools is followed by another call of the same turn, whose list is the
\* list of the call before plus the assistant message and one tool message per call.
C25_LookupsAlwaysCallAgain ==
    [][(pc = "call" /\ LookupsOnly(last_resp')) =>
          /\ pc' = "call"
          /\ turn_calls' = turn_calls + 1
          /\ api_calls' = api_calls + 1
          /\ Len(messages') = Len(messages) + 1 + Len(last_resp'.tool_calls)
          /\ SubSeq(messages', 1, Len(messages)) = messages]_vars

\* C25 witness: the fourth call of a turn is under way after three hops of lookups
C25_Witness ==
    /\ pc = "call"
    /\ turn_calls >= 4
    /\ LookupsOnly(last_resp)
    /\ Len(SelectSeq(TurnPart(messages), HasToolCalls)) = 3

-----------------------------------------------------------------------------
(* C26, C27: reconstruction of damaged rows and of several batches *)

\* the payload cannot be read as a tool-call batch record
NotBatchRecord(content) ==
    \/ json_loads_raises(content)
    \/ ~isinstance_dict(json_loads(content))
    \/ ~has_key(json_loads(content), "tool_calls")
    \/ ~iterable_of_dicts(dict_get(json_loads(content), "tool_calls", JList(<<>>)))

\* C26: an assistant row whose payload is no batch record is reconstructed as a plain
\* assistant message carrying the raw payload, standing between the reconstruction of
\* the rows before it and the reconstruction of the rows after it.
C26_DamagedBatchRowIsPlainText ==
    pc = "loaded" =>
        \A i \in 1..Len(store) :
            (store[i].role = "assistant" /\ NotBatchRecord(store[i].response)) =>
                loaded = (_get_conversation_history_from_db(SubSeq(store, 1, i - 1))
                             \o <<[role |-> "assistant", content |-> store[i].response]>>)
                             \o _get_conversation_history_from_db(SubSeq(store, i + 1, Len(store)))

\* a row holding a batch record whose tool_calls are call objects
IsBatchRow(r) == IsBatchPayload(r.role, r.response) /\ ~NotBatchRecord(r.response)

\* a tool row holding a results record whose tool_results are result objects
IsResultsRow(r) ==
    /\ r.role = "tool"
    /\ ~json_loads_raises(r.response)
    /\ isinstance_dict(json_loads(r.response))
    /\ has_key(json_loads(r.response), "tool_results")
    /\ iterable_of_dicts(dict_get(json_loads(r.response), "tool_results", JList(<<>>)))

\* the group of a batch row at i and the results row after it
StoredGroup(table, i) ==
    LET trs == dict_get(json_loads(table[i + 1].response), "tool_results", JList(<<>>))
    IN <<AssistantMsgOfStored(json_loads(table[i].response))>>
           \o [n \in 1..Len(trs.items) |-> ToolMsgOfStored(trs.items[n])]

MaxGroupRows == 5

\* rows of two different batches, and rows that can stand between them
GroupRowSamples ==
    { Row("user", Raw("weather in Paris?")),
      Row("assistant", CallsPayload(NoneStr, <<<<"get_weather", ArgsParis>>>>)),
      Row("assistant", CallsPayload(Raw("checking"),
                                    <<<<"get_weather", ArgsParis>>, <<"get_weather", ArgsNoCity>>>>)),
      Row("tool", ResultsPayload(<<1>>)),
      Row("tool", ResultsPayload(<<1, 2>>)),
      Row("assistant", Json(JDict([tool_calls |-> JScalar]))) }

RECURSIVE RowSeqsOver(_, _)
RowSeqsOver(samples, n) ==
    IF n = 0 THEN {<<>>}
    ELSE LET shorter == RowSeqsOver(samples, n - 1)
         IN shorter \cup {Append(t, r) : t \in {u \in shorter : Len(u) = n - 1}, r \in samples}

InitGroups ==
    /\ store \in RowSeqsOver(GroupRowSamples, MaxGroupRows)
    /\ pc = "load"
    /\ db_faulty = FALSE
    /\ ClientInit
    /\ AgentInit

SpecGroups == InitGroups /\ [][NextRecon]_vars

\* C27: when the store holds a batch row with its results row and, later, another batch
\* row with its results row, the reconstruction is the reconstruction of the rows before,
\* the first group, the reconstruction of the rows in between, the second group, and the
\* reconstruction of the rows after: two separate groups, each with its own results only.
C27_BatchesStaySeparate ==
    pc = "loaded" =>
        \A i, j \in 1..Len(store) :
            (/\ i + 1 < j
             /\ j + 1 <= Len(store)
             /\ IsBatchRow(store[i]) /\ IsResultsRow(store[i + 1])
             /\ IsBatchRow(store[j]) /\ IsResultsRow(store[j + 1])) =>
                loaded = (((_get_conversation_history_from_db(SubSeq(store, 1, i - 1))
                             \o StoredGroup(store, i))
                             \o _get_conversation_history_from_db(SubSeq(store, i + 2, j - 1)))
                             \o StoredGroup(store, j))
                             \o _get_conversation_history_from_db(SubSeq(store, j + 2, Len(store)))

-----------------------------------------------------------------------------
(* C28: the order of the tool messages of a batch, in the agent and in the client *)

\* the movie agent and the persistence client, each from its own start
InitBoth == Init \/ InitAgent
NextBoth == Next \/ NextAgent
SpecBoth == InitBoth /\ [][NextBoth]_vars

CallIdsOf(resp) == [n \in 1..Len(resp.tool_calls) |-> resp.tool_calls[n].id]

ToolIdsOf(msgs) ==
    LET t == SelectSeq(msgs, IsToolMsg)
    IN [n \in 1..Len(t) |-> t[n].tool_call_id]

\* what a list gained over its earlier value
Appended(old, new) == SubSeq(new, Len(old) + 1, Len(new))

\* ids holds some of call_ids, in the order they have in call_ids
SameRelativeOrder(ids, call_ids) ==
    LET Answered(x) == \E n \in 1..Len(ids) : ids[n] = x
    IN ids = SelectSeq(call_ids, Answered)

\* the tool_call_ids of the tool_results list persisted in a results row
PersistedIds(row) ==
    LET trs == dict_get(json_loads(row.response), "tool_results", JList(<<>>)).items
    IN [n \in 1..Len(trs) |-> dict_get(trs[n], "tool_call_id", PyNone)]

\* C28: the tool messages a response with tool calls adds to the message list (and, in
\* the agent, to conversation_history) stand in the order of their calls in the
\* response; so does the tool_results list of the results row the client stores.
C28_ToolMessagesInCallOrder ==
    [][(IsMessage(last_resp') /\ Len(last_resp'.tool_calls) >= 1) =>
          /\ (pc = "call" /\ pc' # "input") =>
                 SameRelativeOrder(ToolIdsOf(Appended(messages, messages')), CallIdsOf(last_resp'))
          /\ pc = "call" =>
                 SameRelativeOrder(ToolIdsOf(Appended(conversation_history, conversation_history')),
                                   CallIdsOf(last_resp'))
          /\ (pc = "call1" /\ pc' = "call2") =>
                 /\ SameRelativeOrder(ToolIdsOf(Appended(messages, messages')), CallIdsOf(last_resp'))
                 /\ store'[Len(store')].role = "tool"
                 /\ SameRelativeOrder(PersistedIds(store'[Len(store')]), CallIdsOf(last_resp'))]_vars

\* C28 witness: the client has answered a batch of two calls with two tool messages
\* and issued its second call
C28_Witness ==
    /\ pc = "call2"
    /\ IsMessage(last_resp)
    /\ Len(last_resp.tool_calls) = 2
    /\ ToolIdsOf(SubSeq(messages, Len(messages) - 1, Len(messages))) = CallIdsOf(last_resp)
    /\ PersistedIds(store[Len(store)]) = CallIdsOf(last_resp)

-----------------------------------------------------------------------------
(* C29: the store only grows, except by a clear *)

ClientPcs == {"idle", "call1", "call2"}
DbPcs == {"db", "cleared"}

\* the persistence client and the accessor on its own
InitStore == Init \/ InitDb

NextStore ==
    \/ StartTurn
    \/ FirstResponse
    \/ SecondResponse
    \/ Clear
    \/ (pc \in DbPcs /\ DbInsert)
    \/ (pc \in DbPcs /\ DbHistory)
    \/ (pc \in DbPcs /\ DbCount)
    \/ (pc \in DbPcs /\ DbClear)

SpecStore == InitStore /\ [][NextStore]_vars

IsPrefix(a, b) == Len(a) <= Len(b) /\ SubSeq(b, 1, Len(a)) = a

\* C29: every step of the persistence client is the clear command or leaves the rows
\* it found in place, unchanged and in their order, before any row it adds; an
\* insert_conversation that returns an id adds exactly one row after the existing ones;
\* get_conversation_history and get_conversation_count leave the table as it was.
C29_StoreAppendOnly ==
    [][/\ pc \in ClientPcs => (Clear \/ IsPrefix(store, store'))
       /\ (pc \in DbPcs /\ LastCall("insert_conversation")') =>
              /\ Len(store') = Len(store) + 1
              /\ IsPrefix(store, store')
       /\ (pc \in DbPcs /\ (LastCall("get_conversation_history")' \/ LastCall("get_conversation_count")')) =>
              store' = store]_vars

\* C29 witness: a turn with a tool-call batch has run to its answer on a store that
\* already held the rows of an earlier turn
C29_Witness ==
    /\ pc = "idle"
    /\ Len(store) >= 6
    /\ store[1].role = "user"
    /\ \E i \in 3..Len(store) : store[i].role = "tool"

-----------------------------------------------------------------------------
(* C30: the user row of a turn *)

UserRowsOf(rows) == SelectSeq(rows, LAMBDA r : r.role = "user")

\* C30: a turn (every step from idle that is not the clear command) adds exactly one
\* row, the user row with the message the request ends with, and issues its first
\* call with that row stored; the rest of the turn, ending well or not, keeps the
\* row and adds no further user row.
C30_UserRowBeforeFirstCall ==
    [][/\ (pc = "idle" /\ ~Clear) =>
              /\ pc' = "call1"
              /\ api_calls' = api_calls + 1
              /\ store' = Append(store, Row("user", messages'[Len(messages')].content))
       /\ pc \in {"call1", "call2"} =>
              /\ IsPrefix(store, store')
              /\ UserRowsOf(store') = UserRowsOf(store)]_vars

\* C30 (amended): a turn whose user-row insert succeeds adds exactly that row and
\* issues its first call with the row stored; a turn whose insert fails adds no row,
\* makes no call and ends with the exception; the rest of a turn, ending well or not,
\* keeps the rows and adds no further user row.
C30_UserRowUnlessInsertFails ==
    [][/\ (pc = "idle" /\ ~Clear) =>
              \/ /\ pc' = "call1"
                 /\ api_calls' = api_calls + 1
                 /\ store' = Append(store, Row("user", messages'[Len(messages')].content))
              \/ /\ db_faulty
                 /\ pc' = "idle"
                 /\ returned' = Raised
                 /\ api_calls' = api_calls
                 /\ store' = store
       /\ pc \in {"call1", "call2"} =>
              /\ IsPrefix(store, store')
              /\ UserRowsOf(store') = UserRowsOf(store)]_vars

\* C30 witness: the first call of a turn failed and the turn's user row is in the
\* store, followed by the row of the error only
C30_Witness ==
    /\ pc = "idle"
    /\ last_resp = ApiError
    /\ returned = ErrorMsg
    /\ Len(store) >= 2
    /\ store[Len(store) - 1] \in {Row("user", m) : m \in UserMsgs}
    /\ store[Len(store)].role = "system"

-----------------------------------------------------------------------------
(* multi_open_ai_call.py: the client without memory, in two runs side by side *)

MaxNoMemCalls == 3

Runs == {"r1", "r2"}

NoMemSystemMessage == Raw("You are a helpful AI assistant. Keep responses concise and engaging.")

\* what the user may type at the prompt of start_conversation
NoMemInputs == {Raw(" hello "), Raw("what is 2+2?"), Raw("  "), Raw(" Quit ")}

NoMemResponses == {ApiError, ApiMessage(Raw(" ok "), <<>>), ApiMessage(NoneStr, <<>>)}

\* str.lower() over the texts of the model
LowerText(t) == IF t = "Quit" THEN "quit" ELSE t

\* lines 26-31 with the earlier inputs of the run put before the user message (mutant)
chat_completion_messagesRemembering(self, user_message, system_message) ==
    ((IF truthy(system_message)
      THEN <<[role |-> "system", content |-> system_message]>>
      ELSE <<>>)
        \o [n \in 1..Len(turn_log[self]) |-> [role |-> "user", content |-> turn_log[self][n].user]])
        \o <<[role |-> "user", content |-> user_message]>>

\* lines 26-31: the message list chat_completion builds
chat_completion_messages(self, user_message, system_message) ==
    (IF truthy(system_message)
     THEN <<[role |-> "system", content |-> system_message]>>
     ELSE <<>>)
        \o <<[role |-> "user", content |-> user_message]>>

\* lines 33-44: what chat_completion returns for a response of the Model Endpoint
chat_completion_result(resp) ==
    IF resp.failed THEN Fmt("Error making API call: {}", "APIError")
    ELSE IF resp.content = NoneStr
         THEN Fmt("Error making API call: {}", "AttributeError")
         ELSE strip(resp.content)

\* lines 59-75: one input at the prompt: an exit word stops the loop, an empty line
\* is asked again, anything else is sent with the system message alone
NoMemInput ==
    /\ \E self \in Runs, typed \in NoMemInputs :
         LET user_input == strip(typed)
         IN /\ pc[self] = "input"
            /\ IF LowerText(user_input.text) \in {"quit", "exit", "bye"}
               THEN /\ pc' = [pc EXCEPT ![self] = "stopped"]
                    /\ UNCHANGED <<messages, turn_log, api_calls>>
               ELSE IF ~truthy(user_input)
               THEN UNCHANGED <<pc, messages, turn_log, api_calls>>
               ELSE /\ api_calls < MaxNoMemCalls
                    /\ messages' = [messages EXCEPT ![self] =
                           chat_completion_messages(self, user_input, NoMemSystemMessage)]
                    /\ turn_log' = [turn_log EXCEPT ![self] =
                           Append(@, [user |-> user_input, response |-> NoneStr])]
                    /\ pc' = [pc EXCEPT ![self] = "call"]
                    /\ api_calls' = api_calls + 1
    /\ UNCHANGED <<last_resp, returned>>
    /\ UNCHANGED <<store, loaded, tools_sent, db_faulty, id_seq, agent_vars>>

\* lines 33-44 and 78: create() returns or raises; the result is printed
NoMemResponse ==
    /\ \E self \in Runs, resp \in NoMemResponses :
         /\ pc[self] = "call"
         /\ last_resp' = [last_resp EXCEPT ![self] = resp]
         /\ returned' = [returned EXCEPT ![self] = chat_completion_result(resp)]
         /\ turn_log' = [turn_log EXCEPT ![self] =
                [@ EXCEPT ![Len(@)].response = chat_completion_result(resp)]]
         /\ pc' = [pc EXCEPT ![self] = "input"]
    /\ UNCHANGED <<messages, api_calls>>
    /\ UNCHANGED <<store, loaded, tools_sent, db_faulty, id_seq, agent_vars>>

InitNoMem ==
    /\ store = <<>>
    /\ pc = [self \in Runs |-> "input"]
    /\ messages = [self \in Runs |-> <<>>]
    /\ turn_log = [self \in Runs |-> <<>>]
    /\ last_resp = [self \in Runs |-> NoResp]
    /\ returned = [self \in Runs |-> NoneStr]
    /\ tools_sent = FALSE
    /\ api_calls = 0
    /\ loaded = <<>>
    /\ id_seq = 0
    /\ db_faulty = FALSE
    /\ AgentInit

NextNoMem == NoMemInput \/ NoMemResponse

SpecNoMem == InitNoMem /\ [][NextNoMem]_vars

\* the input of the turn a run is in, and its turns before that one
CurrentInput(self) == turn_log[self][Len(turn_log[self])].user
EarlierTurns(self) == SubSeq(turn_log[self], 1, Len(turn_log[self]) - 1)

\* C24: the request of a turn is the system message followed by the turn's user
\* message and nothing else, so two runs at the same input send the same request
\* whatever their earlier turns were.
C24_RequestIgnoresEarlierTurns ==
    /\ \A self \in Runs :
          pc[self] = "call" =>
              messages[self] = << [role |-> "system", content |-> NoMemSystemMessage],
                                  [role |-> "user", content |-> CurrentInput(self)] >>
    /\ \A r1, r2 \in Runs :
          (pc[r1] = "call" /\ pc[r2] = "call" /\ CurrentInput(r1) = CurrentInput(r2)) =>
              messages[r1] = messages[r2]

\* C24 witness: both runs are sending the same input, after different earlier turns
C24_Witness ==
    /\ pc["r1"] = "call"
    /\ pc["r2"] = "call"
    /\ CurrentInput("r1") = CurrentInput("r2")
    /\ EarlierTurns("r1") # EarlierTurns("r2")
    /\ Len(EarlierTurns("r1")) > 0

-----------------------------------------------------------------------------
(* C31: what a hop of the movie agent adds to conversation_history *)

AgentTools == {"fetch_past_reviews", "getGenre", "getMovies", "sendResponse"}

KnownToolsOnly(resp) ==
    /\ IsMessage(resp)
    /\ Len(resp.tool_calls) >= 1
    /\ \A n \in 1..Len(resp.tool_calls) : resp.tool_calls[n].function.name \in AgentTools

\* the calls of a response that were carried out in the step: the lookups that ran
\* and the sendResponse that ended the turn
HandledCalls(resp, ran, how) ==
    LET Handled(tc) ==
            \/ \E n \in 1..Len(ran) : ran[n] = tc.id
            \/ (how = "sendResponse" /\ tc = resp.tool_calls[SendIndex(resp.tool_calls)])
    IN SelectSeq(resp.tool_calls, Handled)

\* what the step added to conversation_history after the user message of line 213
HistoryGain ==
    LET gain == Appended(conversation_history, conversation_history')
    IN IF turn_calls = 1 THEN Tail(gain) ELSE gain

-----------------------------------------------------------------------------
(* C32: get_movies on its own, over lists of genres and of movie ids *)

MaxGenres == 2
MaxPastIds == 2

\* genre texts a caller may pass: catalog genres, one with white space around it,
\* one in another case, one the catalog does not have
GenreSamples == {"Sci-Fi", " Drama", "Music", "drama", "Horror"}

\* movie ids a caller may pass: those of the catalog and one beyond it
PastIdSamples == 1..9

RECURSIVE SeqsOver(_, _)
SeqsOver(samples, n) ==
    IF n = 0 THEN {<<>>}
    ELSE LET shorter == SeqsOver(samples, n - 1)
         IN shorter \cup {Append(t, x) : t \in {u \in shorter : Len(u) = n - 1}, x \in samples}

InitMovies ==
    /\ store = <<>>
    /\ pc = "args"
    /\ db_faulty = FALSE
    /\ id_seq = 0
    /\ last_resp = NoResp
    /\ messages = <<>>
    /\ tools_sent = FALSE
    /\ \E genres \in SeqsOver(GenreSamples, MaxGenres), past_ids \in SeqsOver(PastIdSamples, MaxPastIds) :
          turn_log = [genres |-> genres, past_ids |-> past_ids]
    /\ returned = NoneStr
    /\ api_calls = 0
    /\ loaded = <<>>
    /\ AgentInit

\* lines 155-164: one call of get_movies
GetMovies ==
    /\ pc = "args"
    /\ returned' = get_movies(turn_log.genres, turn_log.past_ids)
    /\ pc' = "returned"
    /\ UNCHANGED <<store, loaded, messages, tools_sent, turn_log, api_calls, db_faulty, id_seq,
                   agent_vars, last_resp>>

NextMovies == GetMovies

SpecMovies == InitMovies /\ [][NextMovies]_vars

\* the catalog movie at position n is not among past_ids and has one of the genres
\* asked for, white space around the asked genre aside
Recommendable(n, genres, past_ids) ==
    /\ \A i \in 1..Len(past_ids) : past_ids[i] # movies[n][1]
    /\ \E i \in 1..Len(genres), j \in 1..Len(movies[n][3]) :
          StripGenre(genres[i]) = movies[n][3][j]

CatalogIndex(name) == CHOOSE n \in 1..Len(movies) : movies[n][2] = name

\* C32: get_movies returns the names of the recommendable catalog movies, each once
\* and in catalog order; so no returned movie has an id in past_ids.
C32_GetMoviesExact ==
    pc = "returned" =>
        /\ \A i \in 1..Len(returned) :
              /\ \E n \in 1..Len(movies) : movies[n][2] = returned[i]
              /\ Recommendable(CatalogIndex(returned[i]), turn_log.genres, turn_log.past_ids)
              /\ movies[CatalogIndex(returned[i])][1] \notin Range(turn_log.past_ids)
        /\ \A n \in 1..Len(movies) :
              Recommendable(n, turn_log.genres, turn_log.past_ids) =>
                  \E i \in 1..Len(returned) : returned[i] = movies[n][2]
        /\ \A i, j \in 1..Len(returned) :
              i < j => CatalogIndex(returned[i]) < CatalogIndex(returned[j])

\* C32 witness: a genre given with white space matched, and a movie of that genre was
\* left out for being among past_ids
C32_Witness ==
    /\ pc = "returned"
    /\ turn_log.genres = <<" Drama">>
    /\ turn_log.past_ids = <<5, 1>>
    /\ returned = <<"The Irishman", "La La Land", "Whiplash">>

-----------------------------------------------------------------------------
(* multi_open_ai_call_memory.py: the client with the history in memory *)

MaxMemCalls == 4

MemSystemMessage ==
    Raw("You are a helpful AI assistant. Keep responses concise and engaging. You can reference previous parts of our conversation.")

\* what the user may type at the prompt of start_conversation
MemInputs == {Raw(" hello "), Raw("what is 2+2?"), Raw("  "), Raw(" Quit "), Raw("clear"), Raw("history")}

MemResponses ==
    {ApiError, ApiMessage(Raw(" ok "), <<>>), ApiMessage(Raw("4"), <<>>), ApiMessage(NoneStr, <<>>)}

\* lines 29-39: system message, the history, the user message
MemMessages(history, user_message, system_message) ==
    ((IF truthy(system_message)
      THEN <<[role |-> "system", content |-> system_message]>>
      ELSE <<>>)
        \o history)
        \o <<[role |-> "user", content |-> user_message]>>

\* lines 41-58: create() raising, or .strip() on a content of None, reaches the handler
MemCallRaises(resp) == resp.failed \/ resp.content = NoneStr

\* lines 41-58 with the user message recorded before the call is made (mutant)
MemHistoryAfterEager(history, user_message, resp) ==
    IF MemCallRaises(resp)
    THEN Append(history, [role |-> "user", content |-> user_message])
    ELSE (history \o <<[role |-> "user", content |-> user_message]>>)
             \o <<[role |-> "assistant", content |-> strip(resp.content)]>>

\* lines 49-53 and 57-58: the history after the call
MemHistoryAfter(history, user_message, resp) ==
    IF MemCallRaises(resp)
    THEN history
    ELSE (history \o <<[role |-> "user", content |-> user_message]>>)
             \o <<[role |-> "assistant", content |-> strip(resp.content)]>>

\* lines 55 and 58: what chat_completion returns
MemResult(resp) ==
    IF resp.failed THEN Fmt("Error making API call: {}", "APIError")
    ELSE IF resp.content = NoneStr
         THEN Fmt("Error making API call: {}", "AttributeError")
         ELSE strip(resp.content)

mem_unchanged ==
    <<store, loaded, tools_sent, turn_log, db_faulty, id_seq, turn_calls, turn_resps, executed,
      emitted, turn_end>>

\* lines 72-97: one input at the prompt: an exit word, a command, an empty line, or a
\* message that chat_completion sends with the history
MemInput ==
    /\ pc = "input"
    /\ \E typed \in MemInputs :
         LET user_input == strip(typed)
             lowered == LowerText(user_input.text)
         IN IF lowered \in {"quit", "exit", "bye"}
            THEN /\ pc' = "stopped"
                 /\ UNCHANGED <<messages, conversation_history, api_calls>>
            ELSE IF lowered = "history"
            THEN UNCHANGED <<pc, messages, conversation_history, api_calls>>
            ELSE IF lowered = "clear"
            THEN /\ conversation_history' = <<>>
                 /\ UNCHANGED <<pc, messages, api_calls>>
            ELSE IF ~truthy(user_input)
            THEN UNCHANGED <<pc, messages, conversation_history, api_calls>>
            ELSE /\ api_calls < MaxMemCalls
                 /\ messages' = MemMessages(conversation_history, user_input, MemSystemMessage)
                 /\ pc' = "call"
                 /\ api_calls' = api_calls + 1
                 /\ UNCHANGED conversation_history
    /\ last_resp' = NoResp
    /\ UNCHANGED <<returned, mem_unchanged>>

\* lines 41-58 and 100: create() returns or raises
MemResponse ==
    /\ pc = "call"
    /\ \E resp \in MemResponses :
         /\ conversation_history' =
                MemHistoryAfter(conversation_history, messages[Len(messages)].content, resp)
         /\ returned' = MemResult(resp)
         /\ last_resp' = resp
    /\ pc' = "input"
    /\ UNCHANGED <<messages, api_calls, mem_unchanged>>

InitMem ==
    /\ store = <<>>
    /\ pc = "input"
    /\ db_faulty = FALSE
    /\ ClientInit
    /\ AgentInit

NextMem == MemInput \/ MemResponse

SpecMem == InitMem /\ [][NextMem]_vars

\* user, assistant, user, assistant, ...: even length, roles by position
Alternating(history) ==
    /\ Len(history) % 2 = 0
    /\ \A i \in 1..Len(history) :
          history[i].role = (IF i % 2 = 1 THEN "user" ELSE "assistant")

\* C33: every step leaves conversation_history alternating; a call that succeeds
\* appends the user message of the request and then the answer, a call that fails
\* leaves the history as it was, and the clear command empties it.
C33_MemoryHistoryAlternates ==
    [][/\ Alternating(conversation_history')
       /\ (pc = "call" /\ IsMessage(last_resp') /\ last_resp'.content # NoneStr) =>
              conversation_history' =
                  (conversation_history \o <<messages[Len(messages)]>>)
                      \o <<[role |-> "assistant", content |-> strip(last_resp'.content)]>>
       /\ (pc = "call" /\ ~(IsMessage(last_resp') /\ last_resp'.content # NoneStr)) =>
              conversation_history' = conversation_history
       /\ (pc = "input" /\ conversation_history' # conversation_history) =>
              conversation_history' = <<>>]_vars

\* C33 witness: after three or more calls, the last of which failed, the history
\* holds one user message and its answer
C33_Witness ==
    /\ pc = "input"
    /\ api_calls >= 3
    /\ last_resp = ApiError
    /\ Len(conversation_history) = 2
    /\ Alternating(conversation_history)

-----------------------------------------------------------------------------
(* open_ai_call_mem_tool.py: the tool client with the history in memory *)

MaxMemToolCalls == 4

MemToolSystemMessage == Raw("You are a helpful AI assistant with access to tools.")

MemToolInputs == {Raw("weather in Paris?"), Raw("  "), Raw(" Quit "), Raw("clear"), Raw("history")}

MemToolShapes ==
    { <<<<"get_weather", ArgsParis>>>>,
      <<<<"get_weather", ArgsParis>>, <<"get_weather", ArgsNoCity>>>>,
      <<<<"get_time", ArgsParis>>, <<"get_weather", ArgsParis>>>>,
      <<<<"get_time", ArgsParis>>>>,
      <<<<"get_weather", ArgsBad>>>> }

MemToolFirstResponses(n) ==
    {ApiError, ApiMessage(Raw(" ok "), <<>>), ApiMessage(NoneStr, <<>>)}
    \cup {ApiMessage(c, BatchOf(sh, n)) : c \in BatchContents, sh \in MemToolShapes}

\* the second call carries no tools
MemToolSecondResponses == {ApiError, ApiMessage(Raw(" ok "), <<>>), ApiMessage(NoneStr, <<>>)}

\* lines 26-49: the lookup's text, or the text of its error; it never raises
MemToolGetWeather(city, ok) ==
    IF ok THEN Fmt("Weather in {city}: ...", city)
    ELSE Fmt("Error fetching weather for {city}: {e}", city)

\* line 167 (and what line 166 catches)
MemToolError(kind) == Fmt("Error making API call: {}", kind)

\* lines 108-109: the position of the first call naming get_weather (0: none)
FirstWeatherCall(tool_calls) ==
    LET at == {n \in 1..Len(tool_calls) : tool_calls[n].function.name = "get_weather"}
    IN IF at = {} THEN 0 ELSE CHOOSE n \in at : \A n2 \in at : n <= n2

\* the outcome of a step of chat_completion_with_tools
MemToolOutcome(p, msgs, hist, ret) ==
    [pc |-> p, messages |-> msgs, conversation_history |-> hist, returned |-> ret]

\* lines 103-167, from the return of the first create() on.  A loop that finds no
\* get_weather call ends without a return statement: the method returns None
MemToolAfterFirst(resp, ok) ==
    LET user_msg == messages[Len(messages)]
    IN IF resp.failed
       THEN MemToolOutcome("input", messages, conversation_history, MemToolError("APIError"))
       ELSE IF Len(resp.tool_calls) = 0
       THEN IF resp.content = NoneStr
            THEN MemToolOutcome("input", messages, conversation_history, MemToolError("AttributeError"))
            ELSE MemToolOutcome("input", messages,
                     (conversation_history \o <<user_msg>>)
                         \o <<[role |-> "assistant", content |-> strip(resp.content)]>>,
                     strip(resp.content))
       ELSE IF FirstWeatherCall(resp.tool_calls) = 0
       THEN MemToolOutcome("input", messages, conversation_history, PyNone)
       ELSE LET tool_call == resp.tool_calls[FirstWeatherCall(resp.tool_calls)]
                args == tool_call.function.arguments
            IN IF json_loads_raises(args)
               THEN MemToolOutcome("input", messages, conversation_history, MemToolError("JSONDecodeError"))
               ELSE IF ~isinstance_dict(json_loads(args))
               THEN MemToolOutcome("input", messages, conversation_history, MemToolError("AttributeError"))
               ELSE LET city == dict_get(json_loads(args), "city", Raw("Unknown"))
                        tool_result == MemToolGetWeather(city, ok)
                    IN MemToolOutcome("call2",
                           (messages \o <<[role |-> "assistant", content |-> or_empty(resp.content),
                                           tool_calls |-> <<tool_call>>]>>)
                               \o <<[role |-> "tool", tool_call_id |-> tool_call.id,
                                     content |-> tool_result]>>,
                           conversation_history, returned)

\* lines 130-155 with the history written before the second call returns (mutant)
MemToolAfterSecondEager(resp) ==
    LET committed == conversation_history \o SubSeq(messages, Len(messages) - 2, Len(messages))
    IN IF resp.failed
       THEN MemToolOutcome("input", messages, committed, MemToolError("APIError"))
       ELSE IF resp.content = NoneStr
       THEN MemToolOutcome("input", messages, committed, MemToolError("AttributeError"))
       ELSE MemToolOutcome("input", messages,
                Append(committed, [role |-> "assistant", content |-> strip(resp.content)]),
                strip(resp.content))

\* lines 130-155 and 166-167, from the return of the second create() on; the request
\* ends with the user message, the assistant message of the call and its tool message
MemToolAfterSecond(resp) ==
    IF resp.failed
    THEN MemToolOutcome("input", messages, conversation_history, MemToolError("APIError"))
    ELSE IF resp.content = NoneStr
    THEN MemToolOutcome("input", messages, conversation_history, MemToolError("AttributeError"))
    ELSE MemToolOutcome("input", messages,
             (conversation_history \o SubSeq(messages, Len(messages) - 2, Len(messages)))
                 \o <<[role |-> "assistant", content |-> strip(resp.content)]>>,
             strip(resp.content))

ApplyMemTool(o) ==
    /\ pc' = o.pc
    /\ messages' = o.messages
    /\ conversation_history' = o.conversation_history
    /\ returned' = o.returned

\* lines 189-214 and 60-101: one input at the prompt
MemToolInput ==
    /\ pc = "input"
    /\ \E typed \in MemToolInputs :
         LET user_input == strip(typed)
             lowered == LowerText(user_input.text)
         IN IF lowered \in {"quit", "exit", "bye"}
            THEN /\ pc' = "stopped"
                 /\ UNCHANGED <<messages, conversation_history, api_calls>>
            ELSE IF lowered = "history"
            THEN UNCHANGED <<pc, messages, conversation_history, api_calls>>
            ELSE IF lowered = "clear"
            THEN /\ conversation_history' = <<>>
                 /\ UNCHANGED <<pc, messages, api_calls>>
            ELSE IF ~truthy(user_input)
            THEN UNCHANGED <<pc, messages, conversation_history, api_calls>>
            ELSE /\ api_calls < MaxMemToolCalls
                 /\ messages' = MemMessages(conversation_history, user_input, MemToolSystemMessage)
                 /\ pc' = "call1"
                 /\ api_calls' = api_calls + 1
                 /\ UNCHANGED conversation_history
    /\ last_resp' = NoResp
    /\ UNCHANGED <<returned, mem_unchanged>>

\* the first create() returns or raises
MemToolFirstResponse ==
    /\ pc = "call1"
    /\ \E resp \in MemToolFirstResponses(api_calls), ok \in BOOLEAN :
         LET o == MemToolAfterFirst(resp, ok)
         IN /\ o.pc = "call2" => api_calls < MaxMemToolCalls
            /\ ApplyMemTool(o)
            /\ api_calls' = IF o.pc = "call2" THEN api_calls + 1 ELSE api_calls
            /\ last_resp' = resp
    /\ UNCHANGED mem_unchanged

\* the second create() returns or raises
MemToolSecondResponse ==
    /\ pc = "call2"
    /\ \E resp \in MemToolSecondResponses :
         ApplyMemTool(MemToolAfterSecond(resp)) /\ last_resp' = resp
    /\ UNCHANGED <<api_calls, mem_unchanged>>

InitMemTool ==
    /\ store = <<>>
    /\ pc = "input"
    /\ db_faulty = FALSE
    /\ ClientInit
    /\ AgentInit

NextMemTool == MemToolInput \/ MemToolFirstResponse \/ MemToolSecondResponse

SpecMemTool == InitMemTool /\ [][NextMemTool]_vars

-----------------------------------------------------------------------------
(* C34, C35: what a turn of the in-memory tool client returns and records *)

\* a Python str (None is none)
IsStr(v) == "k" \in DOMAIN v /\ v.k \in {"raw", "fmt", "json"}

IsErrorString(v) == v.k = "fmt" /\ v.text = "Error making API call: {}"

\* the user message of the turn whose request is in messages
TurnUserMsg == messages[TurnStart(messages)]

\* C34 (as claimed): whatever the Model Endpoint answered, chat_completion_with_tools
\* has returned a string, and when that string is no error string conversation_history
\* holds the turn's user message and ends with the assistant answer returned.
C34_AlwaysReturnsString ==
    (pc = "input" /\ last_resp # NoResp) =>
        /\ IsStr(returned)
        /\ ~IsErrorString(returned) =>
               /\ Len(conversation_history) >= 2
               /\ conversation_history[Len(conversation_history)] =
                      [role |-> "assistant", content |-> returned]
               /\ \E i \in 1..Len(conversation_history) : conversation_history[i] = TurnUserMsg

\* the step is a Model Endpoint call of the turn failing: create() raises, or the
\* content of the message that should be the answer is None
MemToolCallFailed ==
    \/ (pc \in {"call1", "call2"} /\ last_resp' = ApiError)
    \/ (pc = "call2" /\ IsMessage(last_resp') /\ last_resp'.content = NoneStr)
    \/ (pc = "call1" /\ IsMessage(last_resp') /\ Len(last_resp'.tool_calls) = 0
           /\ last_resp'.content = NoneStr)

\* C35: a step in which a Model Endpoint call of the turn fails leaves
\* conversation_history as it was, and so does the step that leads to the second call;
\* a second call that succeeds adds exactly the user message, the assistant message with
\* the one call handled, the tool message with that call's id and the final answer.
C35_TurnCommitsAtomically ==
    [][/\ MemToolCallFailed => conversation_history' = conversation_history
       /\ (pc = "call1" /\ pc' = "call2") => conversation_history' = conversation_history
       /\ (pc = "call2" /\ IsMessage(last_resp') /\ last_resp'.content # NoneStr) =>
              LET gain == Appended(conversation_history, conversation_history')
              IN /\ Len(gain) = 4
                 /\ gain[1] = TurnUserMsg
                 /\ HasToolCalls(gain[2])
                 /\ Len(gain[2].tool_calls) = 1
                 /\ gain[2].tool_calls[1].function.name = "get_weather"
                 /\ gain[3].role = "tool"
                 /\ gain[3].tool_call_id = gain[2].tool_calls[1].id
                 /\ gain[4] = [role |-> "assistant", content |-> strip(last_resp'.content)]
                 /\ IsPrefix(conversation_history, conversation_history')]_vars

\* C35 witness: a tool turn was committed, and the second call of the next tool turn
\* failed, leaving the four entries of the first
C35_Witness ==
    /\ pc = "input"
    /\ last_resp = ApiError
    /\ messages[Len(messages)].role = "tool"
    /\ Len(conversation_history) = 4
    /\ conversation_history[3].role = "tool"

-----------------------------------------------------------------------------
(* C36: the calls of one turn of the persistence client *)

\* create() returns or raises: a call that was issued gets its response
SpecTurns == Spec /\ WF_vars(FirstResponse) /\ WF_vars(SecondResponse)

\* C36: a turn issues its first call with the tool declarations and at most one more,
\* without them; whatever the second call returns, tool calls included, the turn ends
\* with it; and every call that is pending is followed by the end of the turn.
C36_AtMostTwoCallsPerTurn ==
    /\ [][/\ pc = "idle" => (pc' \in {"idle", "call1"} /\ api_calls' <= api_calls + 1)
          /\ (pc = "idle" /\ pc' = "call1") => (api_calls' = api_calls + 1 /\ tools_sent')
          /\ pc = "call1" => pc' \in {"idle", "call2"}
          /\ (pc = "call1" /\ pc' = "call2") => (api_calls' = api_calls + 1 /\ ~tools_sent')
          /\ (pc = "call1" /\ pc' = "idle") => api_calls' = api_calls
          /\ pc = "call2" => (pc' = "idle" /\ api_calls' = api_calls)]_vars
    /\ ((pc \in {"call1", "call2"}) ~> (pc = "idle"))

\* C36 witness: the second call of a turn returned a message with a tool call and the
\* turn ended with the content of that message as its answer
C36_Witness ==
    /\ pc = "idle"
    /\ IsMessage(last_resp)
    /\ Len(last_resp.tool_calls) = 1
    /\ last_resp.tool_calls[1].id = CallId(0, 1)
    /\ returned = Raw("ok")
    /\ store[Len(store)] = Row("assistant", Raw("ok"))

-----------------------------------------------------------------------------
(* C37..C39: the requests and the rows of the persistence client over many turns *)

\* C37 (as claimed): every message list sent to the Model Endpoint starts with the
\* configured system message and holds no other message of role system.
C37_OneSystemMessage ==
    pc \in {"call1", "call2"} =>
        /\ messages[1] = [role |-> "system", content |-> SystemMessage]
        /\ \A i \in 2..Len(messages) : messages[i].role # "system"

\* the ids of the calls of a stored batch record
StoredCallIds(row) ==
    LET tcs == dict_get(json_loads(row.response), "tool_calls", JList(<<>>)).items
    IN [n \in 1..Len(tcs) |-> dict_get(tcs[n], "id", PyNone)]

\* a row holding the record of a batch of one or more calls (line 245 writes no other)
IsWrittenBatchRow(r) == IsBatchRow(r) /\ Len(StoredCallIds(r)) >= 1

\* C38: in the store of one client whose store operations succeed, every batch row is
\* directly followed by a tool-results row, and the results of that row answer calls of
\* that batch, in the turns whose weather lookups failed as in the others.
C38_BatchRowThenResultsRow ==
    \A i \in 1..Len(store) :
        IsWrittenBatchRow(store[i]) =>
            /\ i + 1 <= Len(store)
            /\ IsResultsRow(store[i + 1])
            /\ SameRelativeOrder(PersistedIds(store[i + 1]), StoredCallIds(store[i]))

\* C38 witness: a turn whose weather lookup failed left the row of the failure, then
\* the batch row, then the results row
C38_Witness ==
    /\ Len(store) >= 4
    /\ LET n == Len(store)
       IN /\ store[n - 2].role = "tool"
          /\ ~IsResultsRow(store[n - 2])
          /\ IsWrittenBatchRow(store[n - 1])
          /\ IsResultsRow(store[n])

\* a payload the client wrote as text, not as a serialized record
IsPlainText(payload) == payload.k \in {"raw", "fmt"}

\* C39: every row of role tool holds a serialized tool-results record, and every row
\* of role system or user holds plain text.
C39_ToolRowsAreResultRecords ==
    \A i \in 1..Len(store) :
        /\ store[i].role = "tool" => IsResultsRow(store[i])
        /\ store[i].role \in {"system", "user"} => IsPlainText(store[i].response)

====
